---------------------------- MODULE Spec2Model ----------------------------
(***************************************************************************)
(* phasorsyncrs: the tick-synchronised transport engine.                   *)
(*                                                                         *)
(* Spec, SpecCmd, SpecRun                                                  *)
(*         the EventLoop (src/event_loop.rs) with its EngineMessage        *)
(*         channel, the SharedState record (src/state.rs), the musical     *)
(*         graph counter (src/musical_graph.rs), the Note-Off scheduler    *)
(*         (src/midi_output.rs) and the recorder manager: a long run, a    *)
(*         run with many commands and a failing recorder, a short fair run.*)
(* SpecEC  the external clock with its inactivity watchdog                 *)
(*         (src/midi/external_clock.rs), the BpmCalculator                 *)
(*         (src/midi/clock/mod.rs) and the Transport (src/transport).      *)
(*                                                                         *)
(* Durations are in microseconds unless a name ends in _ns.                *)
(***************************************************************************)
EXTENDS Integers, Naturals, Sequences, FiniteSets, TLC

(* ---------------------------- program constants ----------------------- *)
TICKS_PER_BEAT == 24
BEATS_PER_BAR == 4
TRIGGER_EVERY_N_BARS == 1
TICK_HISTORY_SIZE == 24 * 4
MIDDLE_C_DURATION_TICKS == 48
MIDDLE_C_CHANNEL == 1
MIDDLE_C_NOTE == 60
MIDDLE_C_VELOCITY == 100
InternalClockBpm == 122
ARECORD_WAIT_ATTEMPTS == 20
\* midi/external_clock.rs, microseconds
INACTIVITY_TIMEOUT == 5000000
RECV_POLL == 1000000
\* midi/clock/mod.rs BpmCalculator
WINDOW_SIZE == 24
PPQ == 24
MIN_INTERVAL_US == 1000
MAX_INTERVAL_US == 100000
MIN_SAMPLES == 3

(* ---------------------------- bounds ---------------------------------- *)
\* messages in flight on the EngineMessage channel (both specifications)
MaxQueue == 2
\* Spec, the long run: a steady clock and a working recorder
\*   the clock source stops sending Ticks once tick_count has reached this
MaxTickCount == 150
\*   TransportCommands the producers send in one run
MaxCommands == 2
\*   Tick messages sent while the transport is Stopped
MaxIdleTicks == 1
\* SpecCmd, the short run: many commands, a jittery clock, a failing recorder
CmdTickCount == 3
CmdCommands == 4
CmdIdleTicks == 2
\*   measured tick gaps (counted from the first) that may deviate from the nominal one
CmdJitterTicks == 2
\* SpecEC, the external clock of midi/external_clock.rs
\*   messages the MIDI engine delivers in one run
MaxMidiMessages == 5
\*   sub-second steps of the clock in one run
MaxFineSteps == 3
\*   the run is observed until this time (microseconds)
MaxTime == 6000000
\*   the least time between a receive timing out and the next reading of the clock
LoopOverhead == 1
\* SpecIn, the MIDI input callback of external_clock.rs
\*   raw messages the port hands to the callback in one run
MaxInputs == 4
\* MidiOutputManager driven directly: calls, rewinds of the tick count, the
\* longest duration of a new Note-On
SchedTickCount == 4
SchedRewinds == 1
SchedMaxDuration == 2
\* BpmCalculator called directly, a short run: calls, the calls among them that
\* are not a Tick message, the gaps among them that are not the nominal one
BpmCalls == 9
BpmControls == 4
BpmOddGaps == 1
\* BpmCalculator called directly, a run that fills the window
WindowCalls == 28
WindowControls == 1
WindowOddGaps == 1
\* the run of eight bars: ticks, commands and ticks while Stopped
ClockStarts == 2
ClockTickCount == 6
GenCalls == 5
GenTicks == 4
BeatTicks == 200
HangTickCount == 145
ToggleTickCount == 3
ToggleRequests == 3
HangCommands == 2
\* InternalEngine::send called directly
EngineSends == 5
BarsTickCount == 768
BarsCommands == 1
BarsIdleTicks == 1

VARIABLES
    transport_state,    \* SharedState.transport_state
    tick_count,         \* SharedState.tick_count
    current_beat,       \* SharedState.current_beat
    current_bar,        \* SharedState.current_bar
    bpm,                \* SharedState.bpm
    recording,          \* SharedState.recording
    recording_target,   \* SharedState.recording_target
    last_tick_time,     \* EventLoop.last_tick_time : Option<Instant>, "none" or "some"
    tick_history,       \* EventLoop.tick_history : VecDeque<Duration>
    MUSICAL_TICK_COUNT, \* musical_graph's static counter
    midi_output,        \* EventLoop.midi_output: "none" | "unconnected" | "connected"
    scheduled_notes,    \* MidiOutputManager.scheduled_notes : HashMap<u64, Vec<MidiMessage>>
    child,              \* ArecordManager.child : << >> or << pid >>
    engine_rx,          \* the mpsc channel: messages sent and not yet received
    senders_alive,      \* at least one Sender<EngineMessage> has not been dropped
    el_running,         \* EventLoop::run has not returned
    \* observers (no counterpart in the program's state)
    port_log,           \* every message handed to MidiOutputManager::send, in order
    starts,             \* number of RecordingSpawner::spawn calls
    signals,            \* the (pid, signal) pairs given to RecordingSpawner::send_signal
    send_seq,           \* sequence number (mod SeqModulus) of the next message sent
    recv_seq,           \* sequence number (mod SeqModulus) of the next message to receive
    in_order,           \* every message received so far was the oldest one unreceived
    session,            \* number of Stopped -> Playing transitions so far
    last_cmd,           \* the last TransportCommand handled ("none" before the first)
    last_arm,           \* the arm it took: "start", "stop" or "ignore" ("none" before the first)
    played,             \* Ticks handled while Playing since the last Stopped -> Playing
    \* the environment of a run
    tick_cap,           \* the clock source sends no Tick once tick_count has reached it
    rec_faults,         \* the recorder's environment can fail
    cmds_left,          \* TransportCommands the producers may still send
    idle_left,          \* Tick messages that may still be sent while Stopped
    jitter_left,        \* measured gaps that may still deviate from the nominal one
    \* ---- midi/external_clock.rs: run_external_clock ----
    transport,          \* the shared Transport: is_playing, tick_count, beat, bar, bpm
    bpm_state,          \* BpmCalculator.state: last_tick_time, is_playing, tick_count, intervals
    last_message_time,  \* ExternalClock.last_message_time
    ec_pc,              \* the supervising loop: "check", "recv" or "done"
    ec_exit,            \* how the loop ended: "none", "timeout" or "disconnected"
    recv_deadline,      \* when the pending recv_timeout gives up
    midi_rx,            \* the channel from the receiver thread to the loop
    rx_thread_alive,    \* the receiver thread has not ended
    ec_now,             \* the monotonic clock, microseconds
    midi_left,          \* messages the engine may still deliver
    unknown_seen,       \* the engine has met a message that parse_midi_message rejects
    fine_left,          \* sub-second clock steps still allowed
    \* ---- external_clock.rs: the MIDI input callback; midir_engine.rs ----
    last_input,         \* the raw message last handed to the callback or the parser
    in_left,            \* raw messages the port may still hand to the callback
    parsed,             \* << >>, or what the parser and the converter made of last_input
    \* ---- midi/clock: a BpmCalculator called directly (it shares bpm_state, ec_now) ----
    last_call,          \* the call last made: a ClockMessage or a current_bpm ("none" before the first)
    returned,           \* what that call returned: << >> for None
    calls_left,         \* calls that may still be made
    ctl_left,           \* Start, Stop and Continue messages among them
    odd_left,           \* gaps other than the nominal tick interval among them
    \* ---- clock.rs InternalClock; midi/clock.rs ClockGenerator; midi/internal_clock.rs ----
    config_bpm,         \* Config.bpm, parsed from --bpm
    internal_clock,     \* << >> before InternalClock::new of clock.rs, else << its fields >>
    clock_threads,      \* tick_interval_us of every loop InternalClock::start has spawned
    thread_handle,      \* ClockGenerator.thread_handle: 0 for None, else the thread's index
    running,            \* ClockGenerator.running
    gen_threads,        \* the threads ClockGenerator::start has spawned: "check", "tick" or "done"
    handled,            \* how many messages of each kind the handlers have received
    joining,            \* the thread a pending stop() waits for in join(); 0 for none
    last_op,            \* the call of the MidiClock that returned last: "none", "start", "stop"
    gen_calls_left,     \* calls of start() and stop() that may still be made
    gen_ticks_left      \* ticks the generator threads may still send

vars == << transport_state, tick_count, current_beat, current_bar, bpm, recording,
           recording_target, last_tick_time, tick_history, MUSICAL_TICK_COUNT,
           midi_output, scheduled_notes, child, engine_rx, senders_alive, el_running,
           port_log, starts, signals, send_seq, recv_seq, in_order, session, last_cmd, last_arm,
           played, tick_cap, rec_faults, cmds_left, idle_left, jitter_left,
           transport, bpm_state, last_message_time, ec_pc, ec_exit, recv_deadline,
           midi_rx, rx_thread_alive, ec_now, midi_left, unknown_seen, fine_left,
           last_input, in_left, parsed,
           last_call, returned, calls_left, ctl_left, odd_left,
           config_bpm, internal_clock, clock_threads, thread_handle, running,
           gen_threads, handled, joining, last_op, gen_calls_left, gen_ticks_left >>

INVars == << last_input, in_left, parsed >>
BPVars == << last_call, returned, calls_left, ctl_left, odd_left >>
CSVars == << config_bpm, internal_clock, clock_threads >>
CGVars == << thread_handle, running, gen_threads, handled, joining, last_op,
             gen_calls_left, gen_ticks_left >>
ELVars == << transport_state, tick_count, current_beat, current_bar, bpm, recording,
             recording_target, last_tick_time, tick_history, MUSICAL_TICK_COUNT,
             midi_output, scheduled_notes, child, engine_rx, senders_alive, el_running,
             port_log, starts, signals, send_seq, recv_seq, in_order, session, last_cmd, last_arm,
             played, tick_cap, rec_faults, cmds_left, idle_left, jitter_left >>
ECVars == << transport, bpm_state, last_message_time, ec_pc, ec_exit, recv_deadline,
             midi_rx, rx_thread_alive, ec_now, midi_left, unknown_seen, fine_left >>

NoneT == "none"

(* ------------------------------------------------------------------------ *)
(* Pure helpers                                                             *)
(* ------------------------------------------------------------------------ *)
RECURSIVE SumRange(_, _, _)
\* s[lo] + ... + s[hi], by halves
SumRange(s, lo, hi) ==
    IF lo > hi THEN 0
    ELSE IF lo = hi THEN s[lo]
    ELSE LET mid == (lo + hi) \div 2
         IN  SumRange(s, lo, mid) + SumRange(s, mid + 1, hi)
SumSeq(s) == SumRange(s, 1, Len(s))

\* long division of n * 10^k by d, digit by digit (keeps every intermediate
\* value below 2^31): the pair <<quotient, remainder>>
RECURSIVE LongDiv(_, _, _, _)
LongDiv(q, r, d, k) ==
    IF k = 0 THEN << q, r >>
    ELSE LongDiv(q * 10 + ((r * 10) \div d), (r * 10) % d, d, k - 1)

\* Duration / u32 in nanoseconds, from a total in microseconds
average_duration_ns(total_us, len) ==
    (total_us \div len) * 1000 + (((total_us % len) * 1000) \div len)

\* (60.0 / (seconds * 24.0)).round() with seconds = avg_ns / 10^9,
\* i.e. 25 * 10^8 / avg_ns rounded half away from zero
RoundedBpm(avg_ns) ==
    LET first == << 25 \div avg_ns, 25 % avg_ns >>
        qr == LongDiv(first[1], first[2], avg_ns, 8)
    IN  IF 2 * qr[2] >= avg_ns THEN qr[1] + 1 ELSE qr[1]

calculate_bpm(history) ==
    IF history = << >> THEN 60
    ELSE LET avg_ns == average_duration_ns(SumSeq(history), Len(history))
         IN  IF avg_ns = 0 THEN 60 ELSE RoundedBpm(avg_ns)

\* free function update_tick_history: push_back, then pop_front when over capacity
push_tick_history(history, duration) ==
    LET pushed == Append(history, duration)
    IN  IF Len(pushed) > TICK_HISTORY_SIZE THEN Tail(pushed) ELSE pushed

\* InternalClock::start: microseconds per tick
tick_interval_us == (60000000 \div InternalClockBpm) \div 24

\* the gaps between two consecutive Instant::now() readings of handle_tick
TickGaps == { tick_interval_us, 50000 }


(* ------------------------------------------------------------------------ *)
(* SharedState (src/state.rs)                                               *)
(* ------------------------------------------------------------------------ *)
\* faulty variants of tick_update, which the position properties must tell
\* from it: counting while Stopped, a beat that never wraps, a bar that turns
\* one tick late
tick_update_unguarded(ts, tc, beat, bar) ==
    LET t == tc + 1
    IN  << t, ((t \div TICKS_PER_BEAT) % BEATS_PER_BAR) + 1,
           (t \div (TICKS_PER_BEAT * BEATS_PER_BAR)) + 1 >>
tick_update_no_wrap(ts, tc, beat, bar) ==
    IF ts # "Playing" THEN << tc, beat, bar >>
    ELSE LET t == tc + 1
         IN  << t, (t \div TICKS_PER_BEAT) + 1,
                (t \div (TICKS_PER_BEAT * BEATS_PER_BAR)) + 1 >>
tick_update_late_bar(ts, tc, beat, bar) ==
    IF ts # "Playing" THEN << tc, beat, bar >>
    ELSE LET t == tc + 1
         IN  << t, ((t \div TICKS_PER_BEAT) % BEATS_PER_BAR) + 1,
                (tc \div (TICKS_PER_BEAT * BEATS_PER_BAR)) + 1 >>

\* SharedState::tick_update: the new <<tick_count, current_beat, current_bar>>
tick_update(ts, tc, beat, bar) ==
    IF ts # "Playing" THEN << tc, beat, bar >>
    ELSE LET t == tc + 1
             beat_number == (t \div TICKS_PER_BEAT) % BEATS_PER_BAR
             bar_number == t \div (TICKS_PER_BEAT * BEATS_PER_BAR)
         IN  << t, beat_number + 1, bar_number + 1 >>

(* ------------------------------------------------------------------------ *)
(* musical_graph.rs                                                         *)
(* ------------------------------------------------------------------------ *)
\* a faulty variant that counts while Stopped
process_tick_unguarded(ts, count) ==
    LET c == count + 1
    IN  [count |-> c,
         triggered |-> /\ (c \div TICKS_PER_BEAT) % BEATS_PER_BAR = 0
                       /\ c % TICKS_PER_BEAT = 0]

\* process_tick: the new counter and whether Middle C is triggered
process_tick(ts, count) ==
    IF ts # "Playing" THEN [count |-> count, triggered |-> FALSE]
    ELSE LET c == count + 1
             beat == (c \div TICKS_PER_BEAT) % BEATS_PER_BAR
             bar == (c \div (TICKS_PER_BEAT * BEATS_PER_BAR)) + 1
         IN  [count |-> c,
              triggered |-> /\ beat = 0
                            /\ bar > 0
                            /\ TRIGGER_EVERY_N_BARS > 0
                            /\ c % TICKS_PER_BEAT = 0]

reset_musical_tick_count == 0

\* EventLoop::get_midi_events_from_musical_graph: the events of this tick
\* (id numbers the Note-Ons of a run; it is an observer, not a MIDI field)
middle_c_events(triggered, id) ==
    IF triggered
    THEN << [type |-> "NoteOn", channel |-> MIDDLE_C_CHANNEL, note |-> MIDDLE_C_NOTE,
             velocity |-> MIDDLE_C_VELOCITY,
             duration_ticks |-> MIDDLE_C_DURATION_TICKS, id |-> id] >>
    ELSE << >>

(* ------------------------------------------------------------------------ *)
(* MidiOutputManager (src/midi_output.rs)                                   *)
(* ------------------------------------------------------------------------ *)
\* process_scheduled_events: the entry keyed at current_tick is removed and
\* its messages are handed to send in insertion order
due_events(table, current_tick) ==
    IF current_tick \in DOMAIN table THEN table[current_tick] ELSE << >>

\* a faulty variant in which entries whose tick has passed expire
remove_due_expiring(table, current_tick) ==
    [k \in { key \in DOMAIN table : key > current_tick } |-> table[k]]

\* a faulty variant that leaves the flushed entry in the table
remove_due_kept(table, current_tick) == table
remove_due(table, current_tick) ==
    [k \in (DOMAIN table) \ {current_tick} |-> table[k]]

\* a faulty variant that files the Note-Off one tick late
schedule_note_off_late(table, ev, current_tick) ==
    LET target_tick == current_tick + ev.duration_ticks + 1
        off == [type |-> "NoteOff", channel |-> ev.channel, note |-> ev.note, id |-> ev.id]
    IN  [k \in (DOMAIN table) \cup {target_tick} |->
            IF k = target_tick
            THEN (IF k \in DOMAIN table THEN Append(table[k], off) ELSE << off >>)
            ELSE table[k]]

\* process_note_on: the Note-Off is pushed under current_tick + duration_ticks
schedule_note_off(table, ev, current_tick) ==
    LET target_tick == current_tick + ev.duration_ticks
        off == [type |-> "NoteOff", channel |-> ev.channel, note |-> ev.note, id |-> ev.id]
    IN  [k \in (DOMAIN table) \cup {target_tick} |->
            IF k = target_tick
            THEN (IF k \in DOMAIN table THEN Append(table[k], off) ELSE << off >>)
            ELSE table[k]]

RECURSIVE schedule_all(_, _, _)
schedule_all(table, events, current_tick) ==
    IF events = << >> THEN table
    ELSE schedule_all(IF Head(events).type = "NoteOn"
                      THEN schedule_note_off(table, Head(events), current_tick)
                      ELSE table,
                      Tail(events), current_tick)

\* a faulty variant that handles the new events before the due entries
tick_sends_new_first(table, current_tick, new_events) ==
    new_events \o due_events(table, current_tick)

\* process_tick_events: the messages handed to send, in order: first the
\* entries due at current_tick, then the new Note-Ons
tick_sends(table, current_tick, new_events) ==
    due_events(table, current_tick) \o new_events

\* process_tick_events: the table after the tick
tick_table(table, current_tick, new_events) ==
    schedule_all(remove_due(table, current_tick), new_events, current_tick)

\* MidiOutputManager::send: Err when there is no connection, else what the port answers
send_ok(output, port_accepts) == output = "connected" /\ port_accepts

\* the port_log entries of one tick
log_sends(msgs, accepts, output, current_tick, sess) ==
    [i \in 1..Len(msgs) |->
        [msg |-> msgs[i], tick |-> current_tick, session |-> sess,
         ok |-> send_ok(output, accepts[i])]]

NoteOnCount(log) == Cardinality({i \in 1..Len(log) : log[i].msg.type = "NoteOn"})


(* ------------------------------------------------------------------------ *)
(* ArecordManager (src/event_loop.rs)                                       *)
(* ------------------------------------------------------------------------ *)
\* what ArecordManager::start can meet:
\*   "env_error"   ensure_pair_supported / create_dir_all / read_capture_device fail
\*   "spawn_error" RecordingSpawner::spawn returns Err
\*   "exited"      the child has already exited at the first try_wait
\*   "ok"          the child runs
StartOutcomes == { "ok", "env_error", "spawn_error", "exited" }
\* what ArecordManager::stop can meet after SIGTERM:
\*   "exited" within the wait attempts, "hung" (SIGKILL follows), "wait_error"
StopOutcomes == { "exited", "hung", "wait_error" }

ARECORD_FILENAME_TEMPLATE == "wav_files/take_%Y%m%d_%H%M%S_pair1.wav"

\* a faulty variant that keeps a child that has already exited
arecord_start_keeps_exited(ch, outcome, pid) ==
    IF ch # << >> \/ outcome = "env_error"
    THEN [child |-> ch, spawned |-> 0, result |-> "Err"]
    ELSE IF outcome = "spawn_error" THEN [child |-> ch, spawned |-> 1, result |-> "Err"]
    ELSE [child |-> << pid >>, spawned |-> 1,
          result |-> IF outcome = "exited" THEN "Err" ELSE "Ok"]

\* ArecordManager::start: [child, spawned, result]
arecord_start(ch, outcome, pid) ==
    IF ch # << >> THEN [child |-> ch, spawned |-> 0, result |-> "Err"]
    ELSE IF outcome = "env_error" THEN [child |-> ch, spawned |-> 0, result |-> "Err"]
    ELSE IF outcome = "spawn_error" THEN [child |-> ch, spawned |-> 1, result |-> "Err"]
    ELSE IF outcome = "exited" THEN [child |-> ch, spawned |-> 1, result |-> "Err"]
    ELSE [child |-> << pid >>, spawned |-> 1, result |-> "Ok"]

\* ArecordManager::stop: the signals sent; the child is taken in every case
arecord_stop_signals(ch, outcome) ==
    IF ch = << >> THEN << >>
    ELSE IF outcome = "hung" THEN << << ch[1], "Term" >>, << ch[1], "Kill" >> >>
    ELSE << << ch[1], "Term" >> >>

(* ------------------------------------------------------------------------ *)
(* EventLoop::handle_transport_command                                      *)
(* ------------------------------------------------------------------------ *)
\* faulty variants: a Stop that is never obeyed, a Start obeyed while Playing,
\* a Start that is never obeyed
command_arm_stop_ignored(current_state, action) ==
    IF current_state = "Stopped" /\ action = "Start" THEN "start" ELSE "ignore"
command_arm_restart(current_state, action) ==
    IF action = "Start" THEN "start"
    ELSE IF current_state = "Playing" /\ action = "Stop" THEN "stop"
    ELSE "ignore"
command_arm_start_ignored(current_state, action) ==
    IF current_state = "Playing" /\ action = "Stop" THEN "stop" ELSE "ignore"

\* the arm taken for (current_state, action)
command_arm(current_state, action) ==
    IF current_state = "Stopped" /\ action = "Start" THEN "start"
    ELSE IF current_state = "Playing" /\ action = "Stop" THEN "stop"
    ELSE "ignore"

(* ------------------------------------------------------------------------ *)
(* The EngineMessage channel and its producers                              *)
(* ------------------------------------------------------------------------ *)
\* sequence numbers tell the messages in flight apart
SeqModulus == MaxQueue + 1
NextSeq(n) == (n + 1) % SeqModulus
Msg(kind) == [kind |-> kind, seq |-> send_seq]

QueuedTicks(queue) == Cardinality({ i \in 1..Len(queue) : queue[i].kind = "Tick" })

\* mpsc::Receiver::recv: the oldest message; Err once the channel is empty
\* and every sender is dropped
recv_msg(queue) == Head(queue)
recv_rest(queue) == Tail(queue)
\* a faulty variant that reports the closure while messages are still queued
recv_disconnected_early(queue, alive) == ~alive
recv_disconnected(queue, alive) == queue = << >> /\ ~alive

ELBudget == << tick_cap, rec_faults, cmds_left, idle_left >>
ELOrder == << recv_seq, in_order >>
ELShared == << transport_state, tick_count, current_beat, current_bar, bpm,
               recording, recording_target >>
ELRecorder == << child, starts, signals >>
ELMidi == << scheduled_notes, port_log >>
ELTempo == << last_tick_time, tick_history, jitter_left >>

\* the clock source (clock.rs InternalClock / external_clock.rs 0xF8): send Tick
SendTick ==
    /\ UNCHANGED << ECVars, INVars, BPVars, CSVars, CGVars >>
    /\ senders_alive
    /\ Len(engine_rx) < MaxQueue
    /\ tick_count + QueuedTicks(engine_rx) < tick_cap
    /\ (transport_state = "Stopped" => idle_left > 0)
    /\ engine_rx' = Append(engine_rx, Msg("Tick"))
    /\ send_seq' = NextSeq(send_seq)
    /\ idle_left' = IF transport_state = "Stopped" THEN idle_left - 1 ELSE idle_left
    /\ UNCHANGED << ELShared, ELRecorder, ELMidi, ELTempo, MUSICAL_TICK_COUNT,
                    midi_output, senders_alive, el_running, ELOrder, session, last_cmd, last_arm,
                    played, tick_cap, rec_faults, cmds_left >>

\* external_clock.rs 0xFA / 0xFC, the TUI and the web UI: send a TransportCommand
SendCommand ==
    /\ UNCHANGED << ECVars, INVars, BPVars, CSVars, CGVars >>
    /\ senders_alive
    /\ Len(engine_rx) < MaxQueue
    /\ cmds_left > 0
    /\ \E action \in { "Start", "Stop" } :
          engine_rx' = Append(engine_rx, Msg(action))
    /\ send_seq' = NextSeq(send_seq)
    /\ cmds_left' = cmds_left - 1
    /\ UNCHANGED << ELShared, ELRecorder, ELMidi, ELTempo, MUSICAL_TICK_COUNT,
                    midi_output, senders_alive, el_running, ELOrder, session, last_cmd, last_arm,
                    played, tick_cap, rec_faults, idle_left >>

\* every Sender<EngineMessage> is dropped
DropSenders ==
    /\ UNCHANGED << ECVars, INVars, BPVars, CSVars, CGVars >>
    /\ senders_alive
    /\ senders_alive' = FALSE
    /\ UNCHANGED << ELShared, ELRecorder, ELMidi, ELTempo, MUSICAL_TICK_COUNT,
                    midi_output, engine_rx, el_running, send_seq, ELOrder, session,
                    last_cmd, last_arm, played, ELBudget >>


(* ------------------------------------------------------------------------ *)
(* EventLoop::run (src/event_loop.rs)                                       *)
(* ------------------------------------------------------------------------ *)
\* EventLoop::update_tick_history: [history, bpm] after a tick whose distance
\* to the previous one is duration
tempo_after_tick(last, history, old_bpm, duration) ==
    IF last # NoneT
    THEN LET h == push_tick_history(history, duration)
         IN  [history |-> h, bpm |-> calculate_bpm(h)]
    ELSE [history |-> history, bpm |-> old_bpm]

\* run: engine_rx.recv() returns Ok(message)
Received ==
    /\ engine_rx' = recv_rest(engine_rx)
    /\ recv_seq' = NextSeq(recv_msg(engine_rx).seq)
    /\ in_order' = (in_order /\ recv_msg(engine_rx).seq = recv_seq
                             /\ Len(engine_rx') = Len(engine_rx) - 1)

\* run: Ok(EngineMessage::Tick) => handle_tick
RunTick ==
    /\ UNCHANGED << ECVars, INVars, BPVars, CSVars, CGVars >>
    /\ el_running
    /\ engine_rx # << >>
    /\ recv_msg(engine_rx).kind = "Tick"
    /\ Received
    /\ \E duration \in (IF jitter_left > 0 THEN TickGaps ELSE { tick_interval_us }) :
          LET tempo == tempo_after_tick(last_tick_time, tick_history, bpm, duration)
          IN  /\ tick_history' = tempo.history
              /\ bpm' = tempo.bpm
              /\ jitter_left' = IF last_tick_time # NoneT /\ jitter_left > 0
                                THEN jitter_left - 1 ELSE jitter_left
    /\ last_tick_time' = "some"
    /\ LET upd == tick_update(transport_state, tick_count, current_beat, current_bar)
           current_tick == upd[1]
           graph == process_tick(transport_state, MUSICAL_TICK_COUNT)
           events == middle_c_events(graph.triggered, NoteOnCount(port_log) + 1)
           msgs == tick_sends(scheduled_notes, current_tick, events)
       IN  /\ tick_count' = upd[1]
           /\ current_beat' = upd[2]
           /\ current_bar' = upd[3]
           /\ MUSICAL_TICK_COUNT' = graph.count
           /\ IF midi_output = "none"
              THEN UNCHANGED << scheduled_notes, port_log >>
              ELSE /\ scheduled_notes' = tick_table(scheduled_notes, current_tick, events)
                   /\ \E accepts \in [1..Len(msgs) -> BOOLEAN] :
                         port_log' = port_log \o
                             log_sends(msgs, accepts, midi_output, current_tick,
                                       session)
    /\ played' = IF transport_state = "Playing" THEN played + 1 ELSE played
    /\ UNCHANGED << transport_state, recording, recording_target, ELRecorder,
                    midi_output, senders_alive, el_running, send_seq, session, last_cmd, last_arm,
                    ELBudget >>

\* run: Ok(EngineMessage::TransportCommand(action)) => handle_transport_command
RunCommand ==
    /\ UNCHANGED << ECVars, INVars, BPVars, CSVars, CGVars >>
    /\ el_running
    /\ engine_rx # << >>
    /\ recv_msg(engine_rx).kind # "Tick"
    /\ Received
    /\ LET action == recv_msg(engine_rx).kind
           arm == command_arm(transport_state, action)
       IN  /\ last_cmd' = action
           /\ last_arm' = arm
           /\ CASE arm = "start" ->
                    \E outcome \in (IF rec_faults THEN StartOutcomes ELSE { "ok" }) :
                       LET r == arecord_start(child, outcome, starts + 1)
                       IN  /\ transport_state' = "Playing"
                           /\ child' = r.child
                           /\ starts' = starts + r.spawned
                           /\ recording' = (r.result = "Ok")
                           /\ recording_target' =
                                 IF r.result = "Ok" THEN ARECORD_FILENAME_TEMPLATE
                                 ELSE NoneT
                           /\ played' = 0
                           /\ session' = session + 1
                           /\ UNCHANGED << tick_count, current_beat, current_bar,
                                           MUSICAL_TICK_COUNT, signals >>
                [] arm = "stop" ->
                    \E outcome \in (IF rec_faults THEN StopOutcomes ELSE { "exited" }) :
                       /\ transport_state' = "Stopped"
                       /\ tick_count' = 0
                       /\ current_beat' = 0
                       /\ current_bar' = 0
                       /\ MUSICAL_TICK_COUNT' = reset_musical_tick_count
                       /\ signals' = signals \o arecord_stop_signals(child, outcome)
                       /\ child' = << >>
                       /\ recording' = FALSE
                       /\ recording_target' = NoneT
                       /\ UNCHANGED << starts, played, session >>
                [] OTHER ->
                    UNCHANGED << transport_state, tick_count, current_beat, current_bar,
                                 recording, recording_target, ELRecorder,
                                 MUSICAL_TICK_COUNT, played, session >>
    /\ UNCHANGED << bpm, ELMidi, ELTempo, midi_output, senders_alive, el_running,
                    send_seq, ELBudget >>

\* run: Err(RecvError) => break
RunClosed ==
    /\ UNCHANGED << ECVars, INVars, BPVars, CSVars, CGVars >>
    /\ el_running
    /\ recv_disconnected(engine_rx, senders_alive)
    /\ el_running' = FALSE
    /\ UNCHANGED << ELShared, ELRecorder, ELMidi, ELTempo, MUSICAL_TICK_COUNT,
                    midi_output, engine_rx, senders_alive, send_seq, ELOrder, session,
                    last_cmd, last_arm, played, ELBudget >>

MidiOutputs == { "none", "unconnected", "connected" }

\* Transport::new and BpmCalculator::new; no external clock runs
NewTransport == [is_playing |-> FALSE, tick_count |-> 0, beat |-> 1, bar |-> 1,
                 bpm |-> << "bpm", 120 >>]
NewBpmState == [last_tick_time |-> << >>, is_playing |-> FALSE, tick_count |-> 0,
                intervals |-> << >>]
ECIdle ==
    /\ transport = NewTransport
    /\ bpm_state = NewBpmState
    /\ last_message_time = 0
    /\ ec_pc = "done"
    /\ ec_exit = "none"
    /\ recv_deadline = 0
    /\ midi_rx = << >>
    /\ rx_thread_alive = FALSE
    /\ ec_now = 0
    /\ midi_left = 0
    /\ unknown_seen = FALSE
    /\ fine_left = 0

\* no MIDI input callback is connected and nothing is parsed
INIdle ==
    /\ last_input = << >>
    /\ in_left = 0
    /\ parsed = << >>

\* no BpmCalculator is called directly
BPIdle ==
    /\ last_call = NoneT
    /\ returned = << >>
    /\ calls_left = 0
    /\ ctl_left = 0
    /\ odd_left = 0

\* Config::parse_bpm without --bpm: "120"
DefaultBpm == 120
\* no clock source of clock.rs has been made
CSIdle ==
    /\ config_bpm = DefaultBpm
    /\ internal_clock = << >>
    /\ clock_threads = << >>

\* ClockGenerator::new: no thread, not running, no handler called yet
NoMessages == [Start |-> 0, Stop |-> 0, Continue |-> 0, Tick |-> 0]
NewClockGenerator ==
    /\ thread_handle = 0
    /\ running = FALSE
    /\ gen_threads = << >>
    /\ handled = NoMessages
    /\ joining = 0
    /\ last_op = NoneT
CGIdle ==
    /\ NewClockGenerator
    /\ gen_calls_left = 0
    /\ gen_ticks_left = 0

\* SharedState::new, EventLoop::new, MidiOutputManager::new, ArecordManager::new
InitEL(cap, cmds, idle, jitter, faults) ==
    /\ transport_state = "Stopped"
    /\ tick_count = 0
    /\ current_beat = 0
    /\ current_bar = 0
    /\ bpm = 0
    /\ recording = FALSE
    /\ recording_target = NoneT
    /\ last_tick_time = NoneT
    /\ tick_history = << >>
    /\ MUSICAL_TICK_COUNT = 0
    /\ midi_output \in MidiOutputs
    /\ scheduled_notes = << >>
    /\ child = << >>
    /\ engine_rx = << >>
    /\ senders_alive = TRUE
    /\ el_running = TRUE
    /\ port_log = << >>
    /\ starts = 0
    /\ signals = << >>
    /\ send_seq = 0
    /\ recv_seq = 0
    /\ in_order = TRUE
    /\ session = 0
    /\ last_cmd = "none"
    /\ last_arm = "none"
    /\ played = 0
    /\ tick_cap = cap
    /\ rec_faults = faults
    /\ cmds_left = cmds
    /\ idle_left = idle
    /\ jitter_left = jitter

NextEL == SendTick \/ SendCommand \/ DropSenders \/ RunTick \/ RunCommand \/ RunClosed

\* the long run
\* ---------------------------------------------------------------------------
\* midi/external_clock.rs: the external clock with its inactivity watchdog
\* ---------------------------------------------------------------------------

MidiMessages == { "Clock", "Start", "Stop", "Continue", "NoteOn", "NoteOff",
                  "ControlChange", "ProgramChange" }

\* ExternalClock::convert_midi_to_clock_message; "none" stands for None
convert_midi_to_clock_message(msg) ==
    CASE msg = "Clock" -> "Tick"
      [] msg = "Start" -> "Start"
      [] msg = "Stop" -> "Stop"
      [] msg = "Continue" -> "Continue"
      [] OTHER -> NoneT

\* Transport::set_playing, Transport::set_tempo, Transport::tick
set_playing(t, playing) == [t EXCEPT !.is_playing = playing]
set_tempo(t, new_bpm) == [t EXCEPT !.bpm = new_bpm]
\* a faulty variant that wraps the beat one beat early
transport_tick_wraps_early(t) ==
    IF ~t.is_playing THEN t
    ELSE LET tc == t.tick_count + 1
         IN IF tc % TICKS_PER_BEAT = 0
            THEN IF t.beat + 1 > 3
                 THEN [t EXCEPT !.tick_count = tc, !.beat = 1, !.bar = t.bar + 1]
                 ELSE [t EXCEPT !.tick_count = tc, !.beat = t.beat + 1]
            ELSE [t EXCEPT !.tick_count = tc]
transport_tick(t) ==
    IF ~t.is_playing THEN t
    ELSE LET tc == t.tick_count + 1
         IN IF tc % TICKS_PER_BEAT = 0
            THEN IF t.beat + 1 > 4
                 THEN [t EXCEPT !.tick_count = tc, !.beat = 1, !.bar = t.bar + 1]
                 ELSE [t EXCEPT !.tick_count = tc, !.beat = t.beat + 1]
            ELSE [t EXCEPT !.tick_count = tc]

\* ExternalClock::handle_transport_state_changes
handle_transport_state_changes(t, clock_msg) ==
    CASE clock_msg = "Start" -> set_playing(t, TRUE)
      [] clock_msg = "Stop" -> set_playing(t, FALSE)
      [] clock_msg = "Continue" -> set_playing(t, TRUE)
      [] OTHER -> t

\* intervals.sort_by_key(|d| d.as_nanos())
RECURSIVE insert_sorted(_, _)
insert_sorted(sorted, x) ==
    IF sorted = << >> THEN << x >>
    ELSE IF x < Head(sorted) THEN << x >> \o sorted
    ELSE << Head(sorted) >> \o insert_sorted(Tail(sorted), x)
RECURSIVE sort_intervals(_)
sort_intervals(intervals) ==
    IF intervals = << >> THEN << >>
    ELSE insert_sorted(sort_intervals(SubSeq(intervals, 1, Len(intervals) - 1)),
                       intervals[Len(intervals)])

\* a faulty variant that never evicts
maintain_interval_window_unbounded(intervals) == intervals

\* BpmCalculator::maintain_interval_window
RECURSIVE maintain_interval_window(_)
maintain_interval_window(intervals) ==
    IF Len(intervals) > WINDOW_SIZE THEN maintain_interval_window(Tail(intervals))
    ELSE intervals

\* a faulty variant that already answers with two samples
bpm_estimate_two_samples(intervals) ==
    IF Len(intervals) >= 2
    THEN LET sorted == sort_intervals(intervals)
             start_idx == Len(sorted) \div 4
             end_idx == (Len(sorted) * 3) \div 4
             median_intervals == SubSeq(sorted, start_idx + 1, end_idx)
         IN << "avg_ns", average_duration_ns(SumSeq(median_intervals),
                                             Len(median_intervals)) >>
    ELSE << >>

\* the estimate of BpmCalculator::process_message: the mean, in nanoseconds, of
\* sorted[len/4 .. len*3/4); the tempo it stands for is 60 / avg_seconds / PPQ
bpm_estimate(intervals) ==
    IF Len(intervals) >= MIN_SAMPLES
    THEN LET sorted == sort_intervals(intervals)
             start_idx == Len(sorted) \div 4
             end_idx == (Len(sorted) * 3) \div 4
             median_intervals == SubSeq(sorted, start_idx + 1, end_idx)
         IN << "avg_ns", average_duration_ns(SumSeq(median_intervals),
                                             Len(median_intervals)) >>
    ELSE << >>

\* a faulty variant for which only Start means playing
process_message_start_only(st, msg, now) ==
    [state |-> [st EXCEPT !.is_playing = (msg = "Start")], bpm |-> << >>]

\* a faulty variant in which Stop also forgets the samples
process_message_stop_clears(st, msg, now) ==
    CASE msg = "Start" ->
           [state |-> [st EXCEPT !.is_playing = TRUE, !.last_tick_time = << >>,
                                 !.tick_count = 0, !.intervals = << >>],
            bpm |-> << >>]
      [] msg = "Stop" ->
           [state |-> [st EXCEPT !.is_playing = FALSE, !.intervals = << >>],
            bpm |-> << >>]
      [] msg = "Continue" -> [state |-> [st EXCEPT !.is_playing = TRUE], bpm |-> << >>]
      [] OTHER ->
           IF ~st.is_playing THEN [state |-> st, bpm |-> << >>]
           ELSE LET kept ==
                      IF st.last_tick_time # << >>
                      THEN LET interval == now - st.last_tick_time[1]
                           IN IF interval > MIN_INTERVAL_US /\ interval < MAX_INTERVAL_US
                              THEN maintain_interval_window(Append(st.intervals, interval))
                              ELSE st.intervals
                      ELSE st.intervals
                IN [state |-> [st EXCEPT !.intervals = kept,
                                         !.last_tick_time = << now >>,
                                         !.tick_count = st.tick_count + 1],
                    bpm |-> bpm_estimate(kept)]

\* BpmCalculator::process_message: the new state and the returned estimate
\* (<< >> stands for None)
process_message(st, msg, now) ==
    CASE msg = "Start" ->
           [state |-> [st EXCEPT !.is_playing = TRUE, !.last_tick_time = << >>,
                                 !.tick_count = 0, !.intervals = << >>],
            bpm |-> << >>]
      [] msg = "Stop" -> [state |-> [st EXCEPT !.is_playing = FALSE], bpm |-> << >>]
      [] msg = "Continue" -> [state |-> [st EXCEPT !.is_playing = TRUE], bpm |-> << >>]
      [] OTHER ->
           IF ~st.is_playing THEN [state |-> st, bpm |-> << >>]
           ELSE LET kept ==
                      IF st.last_tick_time # << >>
                      THEN LET interval == now - st.last_tick_time[1]
                           IN IF interval > MIN_INTERVAL_US /\ interval < MAX_INTERVAL_US
                              THEN maintain_interval_window(Append(st.intervals, interval))
                              ELSE st.intervals
                      ELSE st.intervals
                IN [state |-> [st EXCEPT !.intervals = kept,
                                         !.last_tick_time = << now >>,
                                         !.tick_count = st.tick_count + 1],
                    bpm |-> bpm_estimate(kept)]

\* ClockCore::process_message of midi/clock/core.rs, on the transport and the
\* calculator: the play state, then the tick, then the estimate and the tempo
clock_core_process_message(t, st, msg, now) ==
    LET changed == CASE msg \in { "Start", "Continue" } -> set_playing(t, TRUE)
                     [] msg = "Stop" -> set_playing(t, FALSE)
                     [] OTHER -> t
        ticked == IF msg = "Tick" THEN transport_tick(changed) ELSE changed
        r == process_message(st, msg, now)
    IN  [transport |-> IF r.bpm # << >> THEN set_tempo(ticked, r.bpm) ELSE ticked,
         state |-> r.state,
         bpm |-> r.bpm]

\* ExternalClock::update_bpm_and_handle_ticks, on the transport
update_bpm_and_handle_ticks(t, clock_msg, estimate) ==
    IF estimate # << >>
    THEN LET tempo == set_tempo(t, estimate)
         IN IF clock_msg = "Tick" THEN transport_tick(tempo) ELSE tempo
    ELSE t

\* a faulty variant that never times out
check_connection_status_never(last, now) == TRUE
\* a faulty variant that gives up after one silent receive poll
check_connection_status_early(last, now) == ~(now - last > RECV_POLL)
\* ExternalClock::check_connection_status
check_connection_status(last, now) == ~(now - last > INACTIVITY_TIMEOUT)

ECBudget == << midi_left, unknown_seen, fine_left >>

\* the raw messages the MIDI port hands to the engine: the four clock bytes,
\* Active Sensing (0xFE) and a Note On
InputMessages == { << 248 >>, << 250 >>, << 252 >>, << 251 >>, << 254 >>,
                   << 144, 60, 100 >> }

\* a faulty variant that knows the Clock, Start and Stop bytes only
parse_midi_message_no_continue(data) ==
    IF data = << >> THEN NoneT
    ELSE CASE data[1] = 248 -> "Clock"
           [] data[1] = 250 -> "Start"
           [] data[1] = 252 -> "Stop"
           [] data[1] \div 16 = 9 /\ Len(data) >= 3 -> "NoteOn"
           [] OTHER -> NoneT

\* MidirEngine::parse_midi_message; "none" stands for None
parse_midi_message(data) ==
    IF data = << >> THEN NoneT
    ELSE LET first_byte == data[1]
             status_byte == (first_byte \div 16) * 16
         IN  IF first_byte >= 240
             THEN CASE first_byte = 248 -> "Clock"
                    [] first_byte = 250 -> "Start"
                    [] first_byte = 252 -> "Stop"
                    [] first_byte = 251 -> "Continue"
                    [] OTHER -> NoneT
             ELSE CASE status_byte = 144 /\ Len(data) >= 3 -> "NoteOn"
                    [] status_byte = 128 /\ Len(data) >= 3 -> "NoteOff"
                    [] status_byte = 176 /\ Len(data) >= 3 -> "ControlChange"
                    [] status_byte = 192 /\ Len(data) >= 2 -> "ProgramChange"
                    [] OTHER -> NoneT

\* the receiver thread: MidirEngine::recv took a raw message from the port.
\* A message that parses is Ok(msg) and goes to the loop through tx.send(msg),
\* which fails once the loop has dropped the receiving end; one that does not
\* parse is Err("Invalid MIDI message").  On either failure the thread ends.
\* The loop takes a message out of the channel before the engine delivers the
\* next one.
EngineRecv ==
    /\ UNCHANGED << ELVars, INVars, BPVars, CSVars, CGVars >>
    /\ rx_thread_alive
    /\ midi_left > 0
    /\ midi_rx = << >>
    /\ \E data \in InputMessages :
         LET msg == parse_midi_message(data)
         IN  /\ unknown_seen' = (unknown_seen \/ msg = NoneT)
             /\ IF msg = NoneT \/ ec_pc = "done"
                THEN /\ rx_thread_alive' = FALSE
                     /\ UNCHANGED midi_rx
                ELSE /\ midi_rx' = Append(midi_rx, msg)
                     /\ UNCHANGED rx_thread_alive
    /\ midi_left' = midi_left - 1
    /\ UNCHANGED << transport, bpm_state, last_message_time, ec_pc, ec_exit,
                    recv_deadline, ec_now, fine_left >>

\* the receiver thread: engine.recv() returned Err for want of a connection
\* (the port's channel is closed, or there is no input); the thread ends and
\* drops tx
EngineError ==
    /\ UNCHANGED << ELVars, INVars, BPVars, CSVars, CGVars >>
    /\ rx_thread_alive
    /\ rx_thread_alive' = FALSE
    /\ UNCHANGED << transport, bpm_state, last_message_time, ec_pc, ec_exit,
                    recv_deadline, midi_rx, ec_now, ECBudget >>

\* top of the loop: check_connection_status, then rx.recv_timeout(1 s) begins
ECCheck ==
    /\ UNCHANGED << ELVars, INVars, BPVars, CSVars, CGVars >>
    /\ ec_pc = "check"
    /\ IF check_connection_status(last_message_time, ec_now)
       THEN /\ ec_pc' = "recv"
            /\ recv_deadline' = ec_now + RECV_POLL
            /\ UNCHANGED << transport, ec_exit >>
       ELSE /\ transport' = set_playing(transport, FALSE)
            /\ ec_pc' = "done"
            /\ ec_exit' = "timeout"
            /\ UNCHANGED recv_deadline
    /\ UNCHANGED << bpm_state, last_message_time, midi_rx, rx_thread_alive, ec_now,
                    ECBudget >>

\* recv_timeout returned Ok(msg): ExternalClock::handle_midi_message
ECReceive ==
    /\ UNCHANGED << ELVars, INVars, BPVars, CSVars, CGVars >>
    /\ ec_pc = "recv"
    /\ midi_rx # << >>
    /\ LET msg == Head(midi_rx)
           clock_msg == convert_midi_to_clock_message(msg)
           changed == handle_transport_state_changes(transport, clock_msg)
           processed == process_message(bpm_state, clock_msg, ec_now)
       IN /\ last_message_time' = ec_now
          /\ IF clock_msg # NoneT
             THEN /\ bpm_state' = processed.state
                  /\ transport' = update_bpm_and_handle_ticks(changed, clock_msg,
                                                              processed.bpm)
             ELSE UNCHANGED << bpm_state, transport >>
    /\ midi_rx' = Tail(midi_rx)
    /\ ec_pc' = "check"
    /\ UNCHANGED << ec_exit, recv_deadline, rx_thread_alive, ec_now, ECBudget >>

\* recv_timeout returned Err(Timeout): continue
ECTimeout ==
    /\ UNCHANGED << ELVars, INVars, BPVars, CSVars, CGVars >>
    /\ ec_pc = "recv"
    /\ midi_rx = << >>
    /\ rx_thread_alive
    /\ ec_now >= recv_deadline
    /\ ec_pc' = "check"
    /\ ec_now' = ec_now + LoopOverhead
    /\ UNCHANGED << transport, bpm_state, last_message_time, ec_exit, recv_deadline,
                    midi_rx, rx_thread_alive, ECBudget >>

\* recv_timeout returned Err(Disconnected): break
ECDisconnected ==
    /\ UNCHANGED << ELVars, INVars, BPVars, CSVars, CGVars >>
    /\ ec_pc = "recv"
    /\ midi_rx = << >>
    /\ ~rx_thread_alive
    /\ ec_pc' = "done"
    /\ ec_exit' = "disconnected"
    /\ UNCHANGED << transport, bpm_state, last_message_time, recv_deadline, midi_rx,
                    rx_thread_alive, ec_now, ECBudget >>

\* time passes while the loop is blocked in recv_timeout; it cannot pass the
\* deadline of the pending receive, nor a message waiting in the channel.
\* The fine step is the gap between two clock pulses at 120 bpm.
FineSteps == { 60000000 \div (120 * PPQ) }
Advance ==
    /\ UNCHANGED << ELVars, INVars, BPVars, CSVars, CGVars >>
    /\ ec_pc = "recv"
    /\ midi_rx = << >>
    /\ rx_thread_alive
    /\ ec_now < recv_deadline
    /\ ec_now < MaxTime
    /\ \/ /\ ec_now' = recv_deadline
          /\ UNCHANGED fine_left
       \/ /\ fine_left > 0
          /\ \E d \in FineSteps :
               /\ ec_now + d <= recv_deadline
               /\ ec_now' = ec_now + d
          /\ fine_left' = fine_left - 1
    /\ UNCHANGED << transport, bpm_state, last_message_time, ec_pc, ec_exit,
                    recv_deadline, midi_rx, rx_thread_alive, midi_left, unknown_seen >>

\* run_external_clock has built the clock and spawned the receiver thread; an
\* earlier owner of the transport may have left it playing
InitEC ==
    /\ \E playing \in BOOLEAN : transport = set_playing(NewTransport, playing)
    /\ bpm_state = NewBpmState
    /\ last_message_time = 0
    /\ ec_pc = "check"
    /\ ec_exit = "none"
    /\ recv_deadline = 0
    /\ midi_rx = << >>
    /\ rx_thread_alive = TRUE
    /\ ec_now = 0
    /\ midi_left = MaxMidiMessages
    /\ unknown_seen = FALSE
    /\ fine_left = MaxFineSteps

\* the event loop is not part of this program: nothing is sent to it
ELIdle == InitEL(0, 0, 0, 0, FALSE) /\ midi_output = "none"

NextEC == EngineRecv \/ EngineError \/ ECCheck \/ ECReceive \/ ECTimeout
             \/ ECDisconnected \/ Advance
InitECAll == InitEC /\ ELIdle /\ INIdle /\ BPIdle /\ CSIdle /\ CGIdle
SpecEC == InitECAll /\ [][NextEC]_vars

Init == InitEL(MaxTickCount, MaxCommands, MaxIdleTicks, 0, FALSE) /\ ECIdle /\ INIdle /\ BPIdle /\ CSIdle /\ CGIdle
Spec == Init /\ [][NextEL]_vars

\* the short run
InitCmd ==
    InitEL(CmdTickCount, CmdCommands, CmdIdleTicks, CmdJitterTicks, TRUE)
        /\ ECIdle /\ INIdle /\ BPIdle /\ CSIdle /\ CGIdle
SpecCmd == InitCmd /\ [][NextEL]_vars


\* a run of eight bars, with no output port or with one whose connection
\* failed (every send is refused)
InitBars ==
    /\ InitEL(BarsTickCount, BarsCommands, BarsIdleTicks, 0, FALSE)
    /\ midi_output # "connected"
    /\ ECIdle /\ INIdle /\ BPIdle /\ CSIdle /\ CGIdle
SpecBars == InitBars /\ [][NextEL]_vars


(* ------------------------------------------------------------------------ *)
(* MidiOutputManager::process_tick_events with any new events               *)
(* ------------------------------------------------------------------------ *)
\* the new events of one call: nothing, or one Note-On of some duration
note_on_events(id) ==
    { << >> } \cup
    { << [type |-> "NoteOn", channel |-> MIDDLE_C_CHANNEL, note |-> MIDDLE_C_NOTE,
          velocity |-> MIDDLE_C_VELOCITY, duration_ticks |-> d, id |-> id] >> :
        d \in 0..SchedMaxDuration }

\* process_tick_events(current_tick, new_events), called with the next tick
\* count (played counts the calls); the port accepts or refuses what it is
\* handed in this call
ProcessTickEvents ==
    /\ UNCHANGED << ECVars, INVars, BPVars, CSVars, CGVars >>
    /\ played < tick_cap
    /\ played' = played + 1
    /\ LET current_tick == tick_count + 1
       IN  /\ tick_count' = current_tick
           /\ \E new_events \in note_on_events(NoteOnCount(port_log) + 1) :
                 LET msgs == tick_sends(scheduled_notes, current_tick, new_events)
                 IN  /\ scheduled_notes' =
                           tick_table(scheduled_notes, current_tick, new_events)
                     /\ \E port_accepts \in BOOLEAN :
                           port_log' = port_log \o
                               log_sends(msgs, [i \in 1..Len(msgs) |-> port_accepts],
                                         midi_output, current_tick, session)
    /\ UNCHANGED << transport_state, current_beat, current_bar, bpm, recording,
                    recording_target, ELRecorder, ELTempo, MUSICAL_TICK_COUNT,
                    midi_output, engine_rx, senders_alive, el_running, send_seq,
                    ELOrder, session, last_cmd, last_arm, ELBudget >>

\* the caller's tick count returns to 0 (handle_transport_command on Stop) and
\* a new run begins; the manager is not told
RewindTicks ==
    /\ UNCHANGED << ECVars, INVars, BPVars, CSVars, CGVars >>
    /\ cmds_left > 0
    /\ tick_count > 0
    /\ tick_count' = 0
    /\ session' = session + 1
    /\ cmds_left' = cmds_left - 1
    /\ UNCHANGED << transport_state, current_beat, current_bar, bpm, recording,
                    recording_target, ELRecorder, ELMidi, ELTempo, MUSICAL_TICK_COUNT,
                    midi_output, engine_rx, senders_alive, el_running, send_seq,
                    ELOrder, last_cmd, last_arm, played, tick_cap, rec_faults,
                    idle_left >>

InitSched ==
    /\ InitEL(SchedTickCount, SchedRewinds, 0, 0, FALSE)
    /\ midi_output # "none"
    /\ ECIdle /\ INIdle /\ BPIdle /\ CSIdle /\ CGIdle
NextSched == ProcessTickEvents \/ RewindTicks
SpecSched == InitSched /\ [][NextSched]_vars


(* ------------------------------------------------------------------------ *)
(* The two input paths: midir_engine.rs and external_clock.rs               *)
(* ------------------------------------------------------------------------ *)
\* raw messages of one to three bytes with any leading byte
ParseInputs ==
    { << b >> : b \in 0..255 } \cup { << b, 60 >> : b \in 0..255 }
        \cup { << b, 60, 100 >> : b \in 0..255 }

\* MidirEngine::recv parses the raw message; ExternalClock::handle_midi_message
\* converts what was parsed
Parse ==
    /\ UNCHANGED << ELVars, ECVars, BPVars, CSVars, CGVars >>
    /\ in_left > 0
    /\ parsed = << >>
    /\ LET msg == parse_midi_message(last_input)
       IN  parsed' = << msg, IF msg = NoneT THEN NoneT
                             ELSE convert_midi_to_clock_message(msg) >>
    /\ in_left' = in_left - 1
    /\ UNCHANGED last_input

InitParse ==
    /\ last_input \in ParseInputs
    /\ in_left = 1
    /\ parsed = << >>
    /\ ELIdle
    /\ ECIdle
    /\ BPIdle /\ CSIdle /\ CGIdle
SpecParse == InitParse /\ [][Parse]_vars

\* external_clock.rs handle_midi_message: the EngineMessage sent for a raw
\* message; "none" when nothing is sent
handle_midi_message(message) ==
    IF message = << >> THEN NoneT
    ELSE CASE message[1] = 248 -> "Tick"
           [] message[1] = 250 -> "Start"
           [] message[1] = 252 -> "Stop"
           [] OTHER -> NoneT

\* what the port hands to the callback: a message led by any system byte, or
\* a Note On
CallbackMessages == { << b >> : b \in 240..255 } \cup { << 144, 60, 100 >> }

\* run_midi_connection: the callback connected to the port runs
\* handle_midi_message
MidiCallback ==
    /\ UNCHANGED << ECVars, BPVars, CSVars, CGVars >>
    /\ in_left > 0
    /\ senders_alive
    /\ Len(engine_rx) < MaxQueue
    /\ \E message \in CallbackMessages :
          /\ last_input' = message
          /\ IF handle_midi_message(message) = NoneT
             THEN UNCHANGED << engine_rx, send_seq >>
             ELSE /\ engine_rx' = Append(engine_rx, Msg(handle_midi_message(message)))
                  /\ send_seq' = NextSeq(send_seq)
    /\ in_left' = in_left - 1
    /\ UNCHANGED << ELShared, ELRecorder, ELMidi, ELTempo, MUSICAL_TICK_COUNT,
                    midi_output, senders_alive, el_running, ELOrder, session, last_cmd,
                    last_arm, played, ELBudget, parsed >>

\* the EventLoop fed by the external clock alone
InitIn ==
    /\ InitEL(0, 0, 0, 0, FALSE)
    /\ ECIdle
    /\ last_input = << >>
    /\ in_left = MaxInputs
    /\ parsed = << >>
    /\ BPIdle /\ CSIdle /\ CGIdle
NextIn == MidiCallback \/ RunTick \/ RunCommand
SpecIn == InitIn /\ [][NextIn]_vars

(* ------------------------------------------------------------------------ *)
(* BpmCalculator and ClockGenerator::current_bpm, called directly           *)
(* ------------------------------------------------------------------------ *)
ClockMessages == { "Tick", "Start", "Stop", "Continue" }

\* ClockGenerator::start: the tick interval of its loop, microseconds
tick_interval == 20833
\* other times between two calls: too short, the two ends of the accepted
\* range, an accepted gap that differs from the nominal one, too long
OddGaps == { 500, 1000, 25000, 100000, 500000 }
\* the time that may pass before the next call
CallGaps == { tick_interval } \cup (IF odd_left > 0 THEN OddGaps ELSE { })

\* BpmCalculator::current_bpm
current_bpm(st) == bpm_estimate(st.intervals)

\* what a call leaves alone: the event loop, the input paths and the external
\* clock's loop
BpmFrame ==
    UNCHANGED << ELVars, INVars, CSVars, CGVars, transport, last_message_time,
                 ec_pc, ec_exit, recv_deadline, midi_rx, rx_thread_alive, ECBudget >>

\* BpmCalculator::process_message(msg), which reads Instant::now()
ProcessMessage ==
    /\ BpmFrame
    /\ calls_left > 0
    /\ \E msg \in ClockMessages, gap \in CallGaps :
          /\ msg # "Tick" => ctl_left > 0
          /\ LET now == ec_now + gap
                 r == process_message(bpm_state, msg, now)
             IN  /\ ec_now' = now
                 /\ bpm_state' = r.state
                 /\ returned' = r.bpm
          /\ last_call' = msg
          /\ ctl_left' = IF msg # "Tick" THEN ctl_left - 1 ELSE ctl_left
          /\ odd_left' = IF gap # tick_interval THEN odd_left - 1 ELSE odd_left
    /\ calls_left' = calls_left - 1

\* BpmCalculator::current_bpm()
CurrentBpm ==
    /\ BpmFrame
    /\ calls_left > 0 /\ ctl_left > 0
    /\ returned' = current_bpm(bpm_state)
    /\ last_call' = "current_bpm"
    /\ calls_left' = calls_left - 1
    /\ ctl_left' = ctl_left - 1
    /\ UNCHANGED << bpm_state, ec_now, odd_left >>

\* ClockGenerator::current_bpm() of midi/clock.rs: bpm_calculator.current_bpm()
ClockGeneratorCurrentBpm ==
    /\ BpmFrame
    /\ calls_left > 0 /\ ctl_left > 0
    /\ returned' = current_bpm(bpm_state)
    /\ last_call' = "ClockGenerator::current_bpm"
    /\ calls_left' = calls_left - 1
    /\ ctl_left' = ctl_left - 1
    /\ UNCHANGED << bpm_state, ec_now, odd_left >>

\* ClockGenerator::current_bpm() of midi.rs:
\* bpm_calculator.process_message(ClockMessage::Tick)
MidiClockGeneratorCurrentBpm ==
    /\ BpmFrame
    /\ calls_left > 0 /\ ctl_left > 0
    /\ \E gap \in CallGaps :
          /\ LET now == ec_now + gap
                 r == process_message(bpm_state, "Tick", now)
             IN  /\ ec_now' = now
                 /\ bpm_state' = r.state
                 /\ returned' = r.bpm
          /\ odd_left' = IF gap # tick_interval THEN odd_left - 1 ELSE odd_left
    /\ last_call' = "midi::ClockGenerator::current_bpm"
    /\ calls_left' = calls_left - 1
    /\ ctl_left' = ctl_left - 1

\* BpmCalculator::new; nothing else runs
InitCalls(calls, controls, odd_gaps) ==
    /\ ELIdle /\ ECIdle /\ INIdle /\ CSIdle /\ CGIdle
    /\ last_call = NoneT
    /\ returned = << >>
    /\ calls_left = calls
    /\ ctl_left = controls
    /\ odd_left = odd_gaps
NextBpm == ProcessMessage \/ CurrentBpm \/ ClockGeneratorCurrentBpm
              \/ MidiClockGeneratorCurrentBpm
InitBpm == InitCalls(BpmCalls, BpmControls, BpmOddGaps)
SpecBpm == InitBpm /\ [][NextBpm]_vars
InitWindow == InitCalls(WindowCalls, WindowControls, WindowOddGaps)
SpecWindow == InitWindow /\ [][NextBpm]_vars

(* ------------------------------------------------------------------------ *)
(* InternalEngine of midi/internal_engine.rs, sent to directly              *)
(* ------------------------------------------------------------------------ *)
\* impl From<MidiMessage> for ClockMessage
clock_message_from(msg) ==
    CASE msg = "Clock" -> "Tick"
      [] msg = "Start" -> "Start"
      [] msg = "Stop" -> "Stop"
      [] msg = "Continue" -> "Continue"
      [] OTHER -> "Tick"

\* InternalEngine::send(msg): core.process_message(msg.into())
InternalEngineSend ==
    /\ UNCHANGED << ELVars, INVars, CSVars, CGVars, last_message_time, ec_pc,
                    ec_exit, recv_deadline, midi_rx, rx_thread_alive, ECBudget,
                    ctl_left, odd_left >>
    /\ calls_left > 0
    /\ \E msg \in MidiMessages :
          /\ LET now == ec_now + tick_interval
                 r == clock_core_process_message(transport, bpm_state,
                                                 clock_message_from(msg), now)
             IN  /\ ec_now' = now
                 /\ transport' = r.transport
                 /\ bpm_state' = r.state
                 /\ returned' = r.bpm
          /\ last_call' = msg
    /\ calls_left' = calls_left - 1

\* InternalEngine::new: ClockCore::new over a fresh transport
InitEngine == InitCalls(EngineSends, 0, 0)
NextEngine == InternalEngineSend
SpecEngine == InitEngine /\ [][NextEngine]_vars

(* ------------------------------------------------------------------------ *)
(* The internal clock of clock.rs, made and started by main.rs              *)
(* ------------------------------------------------------------------------ *)
\* values of --bpm
ConfigBpms == { 60, 90, 120, 122, 240 }

\* InternalClock::new(tick_tx): the BPM is the literal 122
InternalClockNew == [bpm |-> InternalClockBpm]

\* InternalClock::start: beat_duration_us / 24 with beat_duration_us =
\* 60_000_000 / self.bpm, in u32 arithmetic
clock_tick_interval_us(clock) == (60000000 \div clock.bpm) \div 24

\* main.rs create_clock_source, ClockSource::Internal: the configuration is
\* read for the choice of the source only
CreateClockSource ==
    /\ UNCHANGED << ELVars, ECVars, INVars, BPVars, CGVars >>
    /\ internal_clock = << >>
    /\ internal_clock' = << InternalClockNew >>
    /\ UNCHANGED << config_bpm, clock_threads >>

\* <InternalClock as ClockSource>::start(&self): spawns a loop on every call
ClockSourceStart ==
    /\ UNCHANGED << ELVars, ECVars, INVars, BPVars, CGVars >>
    /\ internal_clock # << >>
    /\ Len(clock_threads) < ClockStarts
    /\ clock_threads' = Append(clock_threads, clock_tick_interval_us(internal_clock[1]))
    /\ UNCHANGED << config_bpm, internal_clock >>

\* one pass of the body of a spawned loop: sleep, then tick_tx.send(Tick)
ClockThreadTick ==
    /\ clock_threads # << >>
    /\ SendTick

InitClock ==
    /\ InitEL(ClockTickCount, 0, ClockTickCount, 0, FALSE) /\ midi_output = "none"
    /\ ECIdle /\ INIdle /\ BPIdle /\ CGIdle
    /\ config_bpm \in ConfigBpms
    /\ internal_clock = << >>
    /\ clock_threads = << >>
NextClock == CreateClockSource \/ ClockSourceStart \/ ClockThreadTick \/ RunTick
SpecClock == InitClock /\ [][NextClock]_vars

(* ------------------------------------------------------------------------ *)
(* midi/clock.rs ClockGenerator under midi/internal_clock.rs InternalClock  *)
(* ------------------------------------------------------------------------ *)
\* TransportHandler::handle_message on the shared transport
transport_handler(t, msg) ==
    CASE msg = "Start" -> set_playing(t, TRUE)
      [] msg = "Stop" -> set_playing(t, FALSE)
      [] msg = "Continue" -> set_playing(t, TRUE)
      [] msg = "Tick" -> transport_tick(t)

\* the handlers' count of a kind of message goes up by one
count_message(h, msg) == [h EXCEPT ![msg] = h[msg] + 1]

\* what the generator leaves alone
GenFrame ==
    UNCHANGED << ELVars, INVars, BPVars, CSVars, last_message_time, ec_pc, ec_exit,
                 recv_deadline, midi_rx, rx_thread_alive, ECBudget >>

\* ClockGenerator::start: nothing when a thread handle is held; else Start to
\* the calculator and the handlers, running = true, one thread spawned
generator_start_returns_early(handle) == handle # 0
ClockGeneratorStart ==
    IF generator_start_returns_early(thread_handle)
    THEN UNCHANGED << bpm_state, transport, handled, running, gen_threads,
                      thread_handle >>
    ELSE /\ bpm_state' = process_message(bpm_state, "Start", ec_now).state
         /\ transport' = transport_handler(transport, "Start")
         /\ handled' = count_message(handled, "Start")
         /\ running' = TRUE
         /\ gen_threads' = Append(gen_threads, "check")
         /\ thread_handle' = Len(gen_threads) + 1

\* <InternalClock as MidiClock>::start
MidiClockStart ==
    /\ GenFrame
    /\ joining = 0
    /\ gen_calls_left > 0
    /\ ClockGeneratorStart
    /\ last_op' = "start"
    /\ gen_calls_left' = gen_calls_left - 1
    /\ UNCHANGED << ec_now, joining, gen_ticks_left >>

\* <InternalClock as MidiClock>::stop after the generator's thread is gone:
\* the Stop for the transport handler, then the return
StopApplied ==
    /\ transport' = transport_handler(transport, "Stop")
    /\ handled' = count_message(handled, "Stop")
    /\ last_op' = "stop"

\* ClockGenerator::stop: whether the handle taken is joined
generator_stop_detaches(handle) == FALSE
generator_stop_joins(handle) == handle # 0

\* <InternalClock as MidiClock>::stop up to the join: running = false, the
\* handle is taken; with no handle the call runs to its end
MidiClockStop ==
    /\ GenFrame
    /\ joining = 0
    /\ gen_calls_left > 0
    /\ running' = FALSE
    /\ thread_handle' = 0
    /\ gen_calls_left' = gen_calls_left - 1
    /\ IF generator_stop_joins(thread_handle)
       THEN /\ joining' = thread_handle
            /\ UNCHANGED << transport, handled, last_op >>
       ELSE /\ joining' = 0
            /\ StopApplied
    /\ UNCHANGED << bpm_state, ec_now, gen_threads, gen_ticks_left >>

\* handle.join() returns once the thread has left its loop; stop goes on
MidiClockStopJoined ==
    /\ GenFrame
    /\ joining # 0
    /\ gen_threads[joining] = "done"
    /\ joining' = 0
    /\ StopApplied
    /\ UNCHANGED << bpm_state, ec_now, thread_handle, running, gen_threads,
                    gen_calls_left, gen_ticks_left >>

\* the spawned thread: while running.load(SeqCst)
ThreadCheck ==
    /\ GenFrame
    /\ \E i \in 1..Len(gen_threads) :
          /\ gen_threads[i] = "check"
          /\ gen_threads' = [gen_threads EXCEPT ![i] = IF running THEN "tick" ELSE "done"]
    /\ UNCHANGED << bpm_state, transport, ec_now, thread_handle, running, handled,
                    joining, last_op, gen_calls_left, gen_ticks_left >>

\* the body of the loop: Tick to the calculator and to every handler, then the
\* sleep up to tick_interval
ThreadTick ==
    /\ GenFrame
    /\ gen_ticks_left > 0
    /\ \E i \in 1..Len(gen_threads) :
          /\ gen_threads[i] = "tick"
          /\ gen_threads' = [gen_threads EXCEPT ![i] = "check"]
    /\ bpm_state' = process_message(bpm_state, "Tick", ec_now).state
    /\ transport' = transport_handler(transport, "Tick")
    /\ handled' = count_message(handled, "Tick")
    /\ ec_now' = ec_now + tick_interval
    /\ gen_ticks_left' = gen_ticks_left - 1
    /\ UNCHANGED << thread_handle, running, joining, last_op, gen_calls_left >>

InitGen ==
    /\ ELIdle /\ ECIdle /\ INIdle /\ BPIdle /\ CSIdle
    /\ NewClockGenerator
    /\ gen_calls_left = GenCalls
    /\ gen_ticks_left = GenTicks
NextGen == MidiClockStart \/ MidiClockStop \/ MidiClockStopJoined \/ ThreadCheck
              \/ ThreadTick
SpecGen == InitGen /\ [][NextGen]_vars

(* ------------------------------------------------------------------------ *)
(* Transport::tick (transport/mod.rs) beside SharedState::tick_update       *)
(* (state.rs), each applied to its own value                                *)
(* ------------------------------------------------------------------------ *)
\* what a call on the Transport leaves alone
TransportFrame ==
    UNCHANGED << ELVars, INVars, BPVars, CSVars, CGVars, bpm_state, last_message_time,
                 ec_pc, ec_exit, recv_deadline, midi_rx, rx_thread_alive, ec_now,
                 ECBudget >>
\* what a call on the SharedState leaves alone
SharedStateFrame ==
    UNCHANGED << ECVars, INVars, BPVars, CSVars, CGVars, bpm, recording,
                 recording_target, ELRecorder, ELTempo, ELMidi, MUSICAL_TICK_COUNT,
                 midi_output, engine_rx, senders_alive, el_running, send_seq,
                 ELOrder, session, last_cmd, last_arm, played, ELBudget >>

\* Transport::set_playing(playing)
TransportSetPlaying ==
    /\ TransportFrame
    /\ \E playing \in BOOLEAN : transport' = set_playing(transport, playing)

\* Transport::tick()
TransportTick ==
    /\ TransportFrame
    /\ transport.tick_count < BeatTicks
    /\ transport' = transport_tick(transport)

\* an assignment to the public field SharedState.transport_state
SetTransportState ==
    /\ SharedStateFrame
    /\ transport_state' \in { "Stopped", "Playing" }
    /\ UNCHANGED << tick_count, current_beat, current_bar >>

\* SharedState::tick_update()
TickUpdate ==
    /\ SharedStateFrame
    /\ tick_count < tick_cap
    /\ LET upd == tick_update(transport_state, tick_count, current_beat, current_bar)
       IN  /\ tick_count' = upd[1]
           /\ current_beat' = upd[2]
           /\ current_bar' = upd[3]
    /\ UNCHANGED transport_state

\* Transport::new and SharedState::new
InitBeat ==
    /\ InitEL(BeatTicks, 0, 0, 0, FALSE) /\ midi_output = "none"
    /\ ECIdle /\ INIdle /\ BPIdle /\ CSIdle /\ CGIdle
NextBeat == TransportSetPlaying \/ TransportTick \/ SetTransportState \/ TickUpdate
SpecBeat == InitBeat /\ [][NextBeat]_vars

(* ------------------------------------------------------------------------ *)
(* The event loop under a clock that never stops sending                    *)
(* ------------------------------------------------------------------------ *)
\* the clock source (clock.rs: a loop without exit) sends a Tick, whatever the
\* transport state; the run is observed from the first Start on, and only the
\* count of ticks while Playing is bounded
SendTickAnytime ==
    /\ UNCHANGED << ECVars, INVars, BPVars, CSVars, CGVars >>
    /\ senders_alive
    /\ Len(engine_rx) < MaxQueue
    /\ session > 0
    /\ tick_count + QueuedTicks(engine_rx) < tick_cap
    /\ engine_rx' = Append(engine_rx, Msg("Tick"))
    /\ send_seq' = NextSeq(send_seq)
    /\ UNCHANGED << ELShared, ELRecorder, ELMidi, ELTempo, MUSICAL_TICK_COUNT,
                    midi_output, senders_alive, el_running, ELOrder, session, last_cmd,
                    last_arm, played, ELBudget >>

\* the producers of this run: a Start first, and a Stop only once a Note-On
\* has been sent
SendHangCommand ==
    /\ SendCommand
    /\ IF port_log = << >>
       THEN cmds_left = HangCommands /\ engine_rx'[Len(engine_rx')].kind = "Start"
       ELSE engine_rx'[Len(engine_rx')].kind = "Stop"

InitHang ==
    /\ InitEL(HangTickCount, HangCommands, 0, 0, FALSE) /\ midi_output = "connected"
    /\ ECIdle /\ INIdle /\ BPIdle /\ CSIdle /\ CGIdle
NextHang == SendTickAnytime \/ SendHangCommand \/ RunTick \/ RunCommand
\* the clock loop never exits
SpecHang == InitHang /\ [][NextHang]_vars /\ WF_vars(SendTickAnytime)

(* ------------------------------------------------------------------------ *)
(* Toggle requests: tui.rs handle_key_event (space), main.rs               *)
(* handle_toggle_request (POST /toggle)                                     *)
(* ------------------------------------------------------------------------ *)
\* the command a toggle chooses from the transport state it has read
toggle_command(current_state) == IF current_state = "Playing" THEN "Stop" ELSE "Start"

\* a toggle request: lock, read transport_state, unlock, send the command
SendToggle ==
    /\ UNCHANGED << ECVars, INVars, BPVars, CSVars, CGVars >>
    /\ senders_alive
    /\ Len(engine_rx) < MaxQueue
    /\ cmds_left > 0
    /\ engine_rx' = Append(engine_rx, Msg(toggle_command(transport_state)))
    /\ send_seq' = NextSeq(send_seq)
    /\ cmds_left' = cmds_left - 1
    /\ UNCHANGED << ELShared, ELRecorder, ELMidi, ELTempo, MUSICAL_TICK_COUNT,
                    midi_output, senders_alive, el_running, ELOrder, session, last_cmd,
                    last_arm, played, tick_cap, rec_faults, idle_left >>

\* every TransportCommand of the run comes from a toggle
InitToggle ==
    /\ InitEL(ToggleTickCount, ToggleRequests, 1, 0, FALSE) /\ midi_output = "none"
    /\ ECIdle /\ INIdle /\ BPIdle /\ CSIdle /\ CGIdle
NextToggle == SendToggle \/ SendTick \/ RunTick \/ RunCommand
SpecToggle == InitToggle /\ [][NextToggle]_vars


(* ------------------------------------------------------------------------ *)
(* Properties                                                               *)
(* ------------------------------------------------------------------------ *)
\* the step in which EventLoop::run receives and handles a message of this kind
Handles(kind) ==
    /\ el_running
    /\ engine_rx # << >>
    /\ recv_msg(engine_rx).kind = kind
    /\ recv_seq' # recv_seq

LogIndex == 1..Len(port_log)
IsNoteOn(i) == port_log[i].msg.type = "NoteOn"
IsNoteOff(i) == port_log[i].msg.type = "NoteOff"
\* the pending Note-Offs of one Note-On, as << key, position >> pairs
Pending(id) ==
    { kp \in UNION { { << k, n >> : n \in 1..Len(scheduled_notes[k]) } :
                        k \in DOMAIN scheduled_notes } :
        scheduled_notes[kp[1]][kp[2]].id = id }
Delivered(id) == { i \in LogIndex : IsNoteOff(i) /\ port_log[i].msg.id = id }

\* C1  Scheduler exactness: every Note-On handed to the output at tick T with
\* duration_ticks D has exactly one Note-Off, which is either still pending
\* under key T + D (and the run of the Note-On has then not yet processed tick
\* T + D) or was handed to the output while the event loop processed the tick
\* whose tick_count is T + D; none is handed over at any other tick, and no
\* Note-Off exists without its Note-On.
C1_SchedulerExactness ==
    /\ \A i \in LogIndex :
          IsNoteOn(i) =>
             LET id == port_log[i].msg.id
                 due == port_log[i].tick + port_log[i].msg.duration_ticks
             IN  /\ Cardinality(Pending(id)) + Cardinality(Delivered(id)) = 1
                 /\ \A kp \in Pending(id) :
                       /\ kp[1] = due
                       /\ (port_log[i].session = session => tick_count < due)
                 /\ \A j \in Delivered(id) : j > i /\ port_log[j].tick = due
    /\ \A j \in LogIndex :
          IsNoteOff(j) =>
             \E i \in LogIndex : IsNoteOn(i) /\ port_log[i].msg.id = port_log[j].msg.id
    /\ \A k \in DOMAIN scheduled_notes :
          \A n \in 1..Len(scheduled_notes[k]) :
             \E i \in LogIndex :
                IsNoteOn(i) /\ port_log[i].msg.id = scheduled_notes[k][n].id

\* a Note-On went out at tick 96 and its Note-Off at tick 96 + 48
C1_Witness ==
    \E i, j \in LogIndex :
       /\ IsNoteOn(i) /\ port_log[i].tick = 96 /\ port_log[i].ok
       /\ IsNoteOff(j) /\ port_log[j].msg.id = port_log[i].msg.id
       /\ port_log[j].tick = 144 /\ port_log[j].ok
       /\ tick_count > 144

\* C2  While the transport is Stopped, handling a Tick, a Start or a Stop leaves
\* tick_count unchanged.
C2_StoppedKeepsTickCount ==
    [][(transport_state = "Stopped"
          /\ (Handles("Tick") \/ Handles("Start") \/ Handles("Stop")))
       => tick_count' = tick_count]_vars

\* ticks sent while Stopped, after a run that counted ticks, have all been handled
C2_Witness ==
    /\ transport_state = "Stopped"
    /\ last_cmd = "Stop"
    /\ played > 0
    /\ idle_left = 0
    /\ engine_rx = << >>
    /\ tick_count = 0

\* C3  After any Ticks handled while Playing, current_beat is in 1..4,
\* current_bar is at least 1, current_beat = ((tick_count / 24) % 4) + 1 and
\* current_bar = (tick_count / 96) + 1.
C3_BeatBarOfTickCount ==
    (transport_state = "Playing" /\ played > 0) =>
        /\ current_beat \in 1..4
        /\ current_bar >= 1
        /\ current_beat = ((tick_count \div 24) % 4) + 1
        /\ current_bar = (tick_count \div 96) + 1

\* the third beat of the second bar
C3_Witness ==
    /\ transport_state = "Playing"
    /\ played = 144
    /\ current_beat = 3
    /\ current_bar = 2

\* C4  Handling a Stop always leaves tick_count = current_beat = current_bar = 0
\* and the generator's counter at 0.
C4_ResetLaw ==
    [][Handles("Stop") =>
          /\ tick_count' = 0
          /\ current_beat' = 0
          /\ current_bar' = 0
          /\ MUSICAL_TICK_COUNT' = 0]_vars

\* a Stop was handled after more than a bar of ticks
C4_Witness ==
    /\ last_cmd = "Stop"
    /\ played > 96
    /\ tick_count = 0
    /\ MUSICAL_TICK_COUNT = 0

\* C5  Handling a Start while Playing leaves transport_state, tick_count,
\* current_beat, current_bar and bpm unchanged and starts no recording: the
\* recorder is not spawned again, the running child and the recording fields
\* stay as they are.  While a recording runs, its child is the only one spawned
\* since the transport started.
C5_StartIdempotent ==
    [][/\ (transport_state = "Playing" /\ Handles("Start")) =>
             /\ UNCHANGED << transport_state, tick_count, current_beat, current_bar,
                             bpm >>
             /\ UNCHANGED << starts, child, recording, recording_target, signals >>
       /\ Handles("Start") => starts' - starts \in { 0, 1 }
       /\ (transport_state' = "Playing" /\ recording') => child' = << starts' >>]_vars

\* a second Start was handled while Playing and recording, after a tick
C5_Witness ==
    /\ transport_state = "Playing"
    /\ last_cmd = "Start"
    /\ recording
    /\ starts = 1
    /\ tick_count > 0
    /\ last_arm = "ignore"


\* C6  After any sequence of TransportCommands the transport is Playing iff the
\* last command handled was Start; Start while Stopped starts the recorder once
\* (at most one spawn, and a recording that runs has the child of that spawn);
\* Stop while Stopped changes nothing and sends the recorder no signal.
C6_TransportTable ==
    [][/\ (transport_state' = "Playing") <=> (last_cmd' = "Start")
       /\ (transport_state = "Stopped" /\ Handles("Start")) =>
             /\ transport_state' = "Playing"
             /\ session' = session + 1
             /\ starts' - starts \in { 0, 1 }
             /\ recording' => (starts' = starts + 1 /\ child' = << starts' >>)
             /\ ~rec_faults => recording'
             /\ signals' = signals
       /\ (transport_state = "Stopped" /\ Handles("Stop")) =>
             UNCHANGED << transport_state, tick_count, current_beat, current_bar, bpm,
                          recording, recording_target, child, starts, signals,
                          MUSICAL_TICK_COUNT >>]_vars

\* a Stop was ignored while Stopped, after a recording had been started and stopped
C6_Witness ==
    /\ transport_state = "Stopped"
    /\ last_cmd = "Stop"
    /\ last_arm = "ignore"
    /\ starts = 1
    /\ Len(signals) = 1

Silence == ec_now - last_message_time

C9_EndToEndPosition ==
    /\ (transport_state = "Playing" /\ played = 96) =>
          (tick_count = 96 /\ current_bar = 2 /\ current_beat = 1)
    /\ (transport_state = "Playing" /\ played = 95) =>
          (tick_count = 95 /\ current_bar = 1 /\ current_beat = 4)

\* the 96th tick after the Start has been handled
C9_Witness ==
    /\ transport_state = "Playing"
    /\ played = 96
    /\ tick_count = 96
    /\ engine_rx = << >>

\* a short run of the event loop, whose thread keeps running while it can take
\* a step
InitRun == InitEL(CmdTickCount, MaxCommands, MaxIdleTicks, 0, FALSE) /\ ECIdle /\ INIdle /\ BPIdle /\ CSIdle /\ CGIdle
SpecRun == InitRun /\ [][NextEL]_vars /\ WF_vars(RunTick \/ RunCommand \/ RunClosed)

\* C10  EventLoop::run returns only once every sender is dropped and the channel
\* is drained; it has then handled every message that was sent, in the order
\* sent; and once the senders are dropped it does return.
C10_RunUntilClosed ==
    /\ [](/\ in_order
          /\ ~el_running => (~senders_alive /\ engine_rx = << >> /\ recv_seq = send_seq))
    /\ (~senders_alive ~> ~el_running)

\* run returned after two Ticks sent while Playing
C10_Witness ==
    /\ ~el_running
    /\ transport_state = "Playing"
    /\ played = 2
    /\ tick_count = 2



\* C11  A failed send is not fatal and costs only the message: the tick is
\* counted and the transport state kept whatever the port answers, the Note-Off
\* of a Note-On whose send failed is still filed under T + D (or has gone out
\* at that tick), and a flushed Note-Off whose send failed has left the table
\* and is never handed to the port again.
C11_SendFailureNonFatal ==
    /\ [](\A i \in LogIndex :
            ~port_log[i].ok =>
               LET id == port_log[i].msg.id
               IN  /\ IsNoteOn(i) =>
                         /\ Cardinality(Pending(id)) + Cardinality(Delivered(id)) = 1
                         /\ \A kp \in Pending(id) :
                               kp[1] = port_log[i].tick + port_log[i].msg.duration_ticks
                   /\ IsNoteOff(i) => (Pending(id) = {} /\ Delivered(id) = { i }))
    /\ [][Handles("Tick") =>
             /\ el_running'
             /\ transport_state' = transport_state
             /\ tick_count' = IF transport_state = "Playing" THEN tick_count + 1
                              ELSE tick_count]_vars

\* the port refused a Note-On and, 48 ticks later, its Note-Off; the run went on
C11_Witness ==
    /\ \E i, j \in LogIndex :
          /\ IsNoteOn(i) /\ ~port_log[i].ok
          /\ IsNoteOff(j) /\ ~port_log[j].ok
          /\ port_log[j].msg.id = port_log[i].msg.id
    /\ transport_state = "Playing"
    /\ tick_count > 144
    /\ el_running


\* C12 as stated  A message whose leading byte is none of 0xF8, 0xFA, 0xFC,
\* 0xFB is discarded without harm: when the engine meets one, the transport is
\* left as it is, nothing is passed on to the loop, and the receiver thread
\* lives on to deliver the messages that follow.
C12_UnknownByteDiscarded ==
    [][(unknown_seen' /\ ~unknown_seen) =>
          /\ UNCHANGED << transport, midi_rx >>
          /\ rx_thread_alive']_vars


ECHandles == ec_pc = "recv" /\ midi_rx # << >> /\ midi_rx' = Tail(midi_rx)

\* C14  BpmCalculator play state: is_playing is false at first; Start and
\* Continue set it, Stop clears it, a Tick never changes it (so it is true iff
\* the last of Start/Stop/Continue was Start or Continue); Start, Stop,
\* Continue and a Tick while not playing return None (no tempo is set and no
\* tick is counted on the transport), and such a Tick changes nothing in the
\* calculator.
C14_BpmPlayState ==
    /\ ~bpm_state.is_playing
    /\ [][ECHandles =>
            LET m == convert_midi_to_clock_message(Head(midi_rx))
                r == process_message(bpm_state, m, ec_now)
                none_returned ==
                    /\ r.bpm = << >>
                    /\ transport'.bpm = transport.bpm
                    /\ transport'.tick_count = transport.tick_count
            IN  /\ m \in { "Start", "Continue" } =>
                      (bpm_state'.is_playing /\ none_returned)
                /\ m = "Stop" => (~bpm_state'.is_playing /\ none_returned)
                /\ m \in { "Tick", NoneT } =>
                      bpm_state'.is_playing = bpm_state.is_playing
                /\ (m = "Tick" /\ ~bpm_state.is_playing) =>
                      (none_returned /\ bpm_state' = bpm_state)]_vars

\* after Start, a counted Tick and Stop, a further Tick was handled and ignored
C14_Witness ==
    /\ ~bpm_state.is_playing
    /\ bpm_state.tick_count = 1
    /\ bpm_state.last_tick_time # << >>
    /\ last_message_time > bpm_state.last_tick_time[1]
    /\ midi_left + 4 <= MaxMidiMessages
    /\ midi_rx = << >>
    /\ ec_pc = "check"


\* the Note-Ons handed to the output in the current run
RunNoteOns == { i \in LogIndex : IsNoteOn(i) /\ port_log[i].session = session }

C16_RecorderStartFailure ==
    /\ [](/\ recording <=> child # << >>
          /\ recording <=> recording_target # NoneT
          /\ recording => transport_state = "Playing")
    /\ [][(Handles("Start") /\ transport_state = "Stopped") =>
            /\ transport_state' = "Playing"
            /\ signals' = signals
            /\ \A outcome \in { "spawn_error", "exited" } :
                  LET r == arecord_start(child, outcome, starts + 1)
                  IN  r.result = "Err" /\ r.child = << >>
            /\ (starts' = starts + 1 /\ ~recording') =>
                  (child' = << >> /\ recording_target' = NoneT)]_vars
    /\ [][(Handles("Stop") /\ transport_state = "Playing" /\ ~recording) =>
            (transport_state' = "Stopped" /\ signals' = signals
             /\ child' = << >>)]_vars

\* the one spawn of the run failed, the transport played, and the Stop that
\* followed signalled nobody
C16_Witness ==
    /\ rec_faults
    /\ starts = 1
    /\ last_cmd = "Stop" /\ last_arm = "stop"
    /\ transport_state = "Stopped"
    /\ played > 0
    /\ signals = << >>


\* the entries of port_log' that the step appended
NewLogIndex == { n \in 1..Len(port_log') : n > Len(port_log) }

\* C17  Flush-before-insert: within one tick every scheduler entry keyed at the
\* current tick_count is handed to the output, in its order, before any new
\* Note-On of that tick is sent or scheduled; so in the output stream a
\* Note-Off due at tick T precedes a Note-On emitted at tick T.
C17_FlushBeforeInsert ==
    /\ [](\A i, j \in LogIndex :
             (/\ port_log[i].session = port_log[j].session
              /\ port_log[i].tick = port_log[j].tick
              /\ IsNoteOff(i) /\ IsNoteOn(j)) => i < j)
    /\ [][tick_count' = tick_count + 1 =>
            LET due == due_events(scheduled_notes, tick_count')
            IN  /\ Len(port_log') >= Len(port_log) + Len(due)
                /\ \A n \in 1..Len(due) :
                      port_log'[Len(port_log) + n].msg = due[n]
                /\ \A n \in NewLogIndex :
                      n > Len(port_log) + Len(due) =>
                         /\ port_log'[n].msg.type = "NoteOn"
                         /\ Pending(port_log'[n].msg.id) = { }]_vars

\* a Note-Off and a Note-On of the same tick both reached the port
C17_Witness ==
    \E i, j \in LogIndex :
       /\ port_log[i].session = port_log[j].session
       /\ port_log[i].tick = port_log[j].tick
       /\ IsNoteOff(i) /\ IsNoteOn(j)
       /\ port_log[i].ok /\ port_log[j].ok


\* C18  Zero-duration note: a Note-On with duration_ticks = 0 processed at tick
\* T has its Note-Off keyed at the current tick T, and that Note-Off is handed
\* to the output when the next tick (T + 1) of the run is processed: one tick
\* late rather than immediately.
C18_ZeroDurationOneTickLate ==
    \A i \in LogIndex :
       (/\ IsNoteOn(i)
        /\ port_log[i].msg.duration_ticks = 0
        /\ port_log[i].session = session) =>
          LET T == port_log[i].tick
              id == port_log[i].msg.id
          IN  /\ tick_count = T =>
                    (Delivered(id) = { } /\ \A kp \in Pending(id) : kp[1] = T)
              /\ tick_count > T =>
                    \E j \in Delivered(id) :
                       /\ port_log[j].session = session
                       /\ port_log[j].tick = T + 1


\* the messages under a key of the scheduler, << >> when there is no entry
EntryOf(table, k) == IF k \in DOMAIN table THEN table[k] ELSE << >>
\* the Note-Off that process_note_on files for a Note-On
NoteOffOf(on) ==
    [type |-> "NoteOff", channel |-> on.channel, note |-> on.note, id |-> on.id]
\* what the step appended to port_log
NewLog == SubSeq(port_log', Len(port_log) + 1, Len(port_log'))
\* the Note-Offs of the Note-Ons the step processed whose key is k, in order
FiledUnder(k) ==
    LET ons == SelectSeq(NewLog, LAMBDA e : /\ e.msg.type = "NoteOn"
                                            /\ e.tick + e.msg.duration_ticks = k)
    IN  [n \in 1..Len(ons) |-> NoteOffOf(ons[n].msg)]

\* C19  Scheduler entry lifecycle: a message enters the scheduler only when a
\* Note-On is processed, under key current tick + duration_ticks; an entry
\* leaves it only when a tick whose tick_count equals its key is processed, and
\* then all its messages are removed and handed to the output in insertion
\* order in that same step; no other step (a Stop, a Start, a tick with another
\* count) removes or delivers anything, and entries never expire.
C19_EntryLifecycle ==
    [][LET tick_step == tick_count' = tick_count + 1
           flushed == IF tick_step THEN EntryOf(scheduled_notes, tick_count')
                      ELSE << >>
       IN  /\ Len(port_log') >= Len(port_log) + Len(flushed)
           /\ SubSeq(port_log', 1, Len(port_log)) = port_log
           /\ \A n \in 1..Len(flushed) :
                 /\ port_log'[Len(port_log) + n].msg = flushed[n]
                 /\ port_log'[Len(port_log) + n].tick = tick_count'
           /\ \A n \in NewLogIndex :
                 n > Len(port_log) + Len(flushed) =>
                    (tick_step /\ port_log'[n].msg.type = "NoteOn")
           /\ \A k \in (DOMAIN scheduled_notes) \cup (DOMAIN scheduled_notes') :
                 EntryOf(scheduled_notes', k) =
                    (IF tick_step /\ k = tick_count' THEN << >>
                     ELSE EntryOf(scheduled_notes, k)) \o FiledUnder(k)]_vars

\* a Note-Off filed in one run outlived a rewind of the tick count and was
\* delivered by the tick of the next run whose count is its key, followed in
\* the same step by a second Note-Off filed later under that key
C19_Witness ==
    \E i, j \in LogIndex :
       /\ IsNoteOff(i) /\ IsNoteOff(j)
       /\ j = i + 1
       /\ port_log[i].tick = port_log[j].tick
       /\ port_log[i].session = 1 /\ port_log[j].session = 1
       /\ port_log[i].msg.id < port_log[j].msg.id
       /\ \A n \in LogIndex :
             (IsNoteOn(n) /\ port_log[n].msg.id = port_log[i].msg.id)
                => port_log[n].session = 0


\* C20  Every Tick (0xF8), Start (0xFA), Stop (0xFC) and Continue (0xFB) byte
\* received by the external clock source is forwarded to the EventLoop as an
\* EngineMessage, in the order received; none of the four is dropped.  (The
\* claim adds that each also advances the BpmEstimator; the forwarding half
\* alone is stated here.)
C20_ClockBytesForwarded ==
    [][(in_left' = in_left - 1 /\ last_input'[1] \in { 248, 250, 252, 251 }) =>
          /\ Len(engine_rx') = Len(engine_rx) + 1
          /\ SubSeq(engine_rx', 1, Len(engine_rx)) = engine_rx
          /\ last_input'[1] = 248 => engine_rx'[Len(engine_rx')].kind = "Tick"
          /\ last_input'[1] = 250 => engine_rx'[Len(engine_rx')].kind = "Start"
          /\ last_input'[1] = 252 => engine_rx'[Len(engine_rx')].kind = "Stop"]_vars


\* C21  Single writer: in every interleaving of the clock-source, EventLoop,
\* TUI and web threads the shared transport record (transport state, tick
\* count, beat, bar, bpm) is written only by the EventLoop, that is only in a
\* step in which the EventLoop handles a message; a step of any other thread
\* leaves both the SharedState and the Transport as they are.
C21_SingleWriter ==
    [][/\ << transport_state, tick_count, current_beat, current_bar, bpm >>' #
             << transport_state, tick_count, current_beat, current_bar, bpm >>
          => (Handles("Tick") \/ Handles("Start") \/ Handles("Stop"))
       /\ ~(Handles("Tick") \/ Handles("Start") \/ Handles("Stop"))
          => transport' = transport]_vars


\* a call was made on the BpmCalculator in this step
Called(call) == calls_left' = calls_left - 1 /\ last_call' = call
\* a Tick was handed to process_message, by a caller or by the current_bpm of
\* midi.rs
TickProcessed ==
    Called("Tick") \/ Called("midi::ClockGenerator::current_bpm")

\* C22  The BpmCalculator's sample window and last tick time are modified only
\* by Start and by a Tick processed while playing: Stop, Continue and a Tick
\* while not playing leave them unchanged, so current_bpm() right after a Stop
\* equals current_bpm() right before it.
C22_WindowFrame ==
    [][/\ (\/ bpm_state'.intervals # bpm_state.intervals
           \/ bpm_state'.last_tick_time # bpm_state.last_tick_time)
          => (Called("Start") \/ (TickProcessed /\ bpm_state.is_playing))
       /\ Called("Stop") =>
             /\ current_bpm(bpm_state') = current_bpm(bpm_state)
             /\ bpm_state' = [bpm_state EXCEPT !.is_playing = FALSE]
       /\ Called("Continue") =>
             bpm_state' = [bpm_state EXCEPT !.is_playing = TRUE]
       /\ (TickProcessed /\ ~bpm_state.is_playing) => bpm_state' = bpm_state]_vars

\* the tempo is still there after a Stop: current_bpm() returned an estimate
\* from a window that the Stop before it left alone
C22_Witness ==
    /\ last_call = "current_bpm"
    /\ ~bpm_state.is_playing
    /\ Len(bpm_state.intervals) >= MIN_SAMPLES
    /\ returned # << >>


\* the most recent samples of a sequence, at most WINDOW_SIZE of them
MostRecent(samples) ==
    IF Len(samples) > WINDOW_SIZE
    THEN SubSeq(samples, Len(samples) - WINDOW_SIZE + 1, Len(samples))
    ELSE samples

\* C23  In every reachable state the BpmCalculator's window holds at most 24
\* intervals, each with 1000 us < interval < 100000 us, and it is exactly the
\* most recent (up to 24) such intervals since the last Start, in arrival
\* order: Start empties it, a Tick while playing whose interval is in the range
\* appends it and evicts the oldest beyond 24, and a tick whose interval is
\* outside the range (500 us, 500 ms) leaves the window and the estimate
\* unchanged while it still becomes the new last tick time.
C23_WindowContents ==
    /\ [](/\ Len(bpm_state.intervals) <= WINDOW_SIZE
          /\ \A i \in 1..Len(bpm_state.intervals) :
                /\ bpm_state.intervals[i] > MIN_INTERVAL_US
                /\ bpm_state.intervals[i] < MAX_INTERVAL_US)
    /\ [][/\ Called("Start") => bpm_state'.intervals = << >>
          /\ (TickProcessed /\ bpm_state.is_playing) =>
                LET measured == bpm_state.last_tick_time # << >>
                    elapsed == ec_now' - bpm_state.last_tick_time[1]
                    in_range == /\ measured
                                /\ elapsed > MIN_INTERVAL_US
                                /\ elapsed < MAX_INTERVAL_US
                IN  /\ bpm_state'.last_tick_time = << ec_now' >>
                    /\ in_range =>
                          bpm_state'.intervals =
                             MostRecent(Append(bpm_state.intervals, elapsed))
                    /\ ~in_range =>
                          /\ bpm_state'.intervals = bpm_state.intervals
                          /\ current_bpm(bpm_state') = current_bpm(bpm_state)]_vars

\* 27 ticks after a Start, one of them half a second late: the window is full
\* of nominal intervals, the oldest having been evicted
C23_Witness ==
    /\ bpm_state.tick_count = 27
    /\ Len(bpm_state.intervals) = WINDOW_SIZE
    /\ \A i \in 1..WINDOW_SIZE : bpm_state.intervals[i] = tick_interval
    /\ ec_now = 27 * tick_interval + 500000
    /\ last_call = "Tick"
    /\ returned # << >>


\* C24  process_message(Tick) while playing and current_bpm() return an
\* estimate iff the window holds at least 3 accepted samples, and None
\* otherwise; so after a Start the first three Ticks always return None and an
\* estimate can first appear on the fourth Tick.
C24_MinimumSamples ==
    /\ [](Len(bpm_state.intervals) < MIN_SAMPLES => current_bpm(bpm_state) = << >>)
    /\ [](Len(bpm_state.intervals) >= MIN_SAMPLES => current_bpm(bpm_state) # << >>)
    /\ [](bpm_state.tick_count <= 3 => Len(bpm_state.intervals) < MIN_SAMPLES)
    /\ [][/\ (Called("Tick") /\ bpm_state.is_playing) =>
                /\ returned' # << >> <=> Len(bpm_state'.intervals) >= MIN_SAMPLES
                /\ bpm_state'.tick_count <= 3 => returned' = << >>
          /\ (Called("current_bpm") \/ Called("ClockGenerator::current_bpm")) =>
                (returned' # << >> <=> Len(bpm_state.intervals) >= MIN_SAMPLES)]_vars

\* the fourth Tick after a Start returned the first estimate
C24_Witness ==
    /\ last_call = "Tick"
    /\ bpm_state.tick_count = 4
    /\ Len(bpm_state.intervals) = MIN_SAMPLES
    /\ returned # << >>


\* C25  Trimmed mean: for every window length n from 3 to 24 the estimate is
\* the average of the sorted samples after dropping exactly n \div 4 samples
\* from the low end and exactly n \div 4 samples from the high end, the same
\* number from each end.
C25_TrimmedMean ==
    LET n == Len(bpm_state.intervals)
        sorted == sort_intervals(bpm_state.intervals)
        dropped == n \div 4
        middle == SubSeq(sorted, dropped + 1, n - dropped)
    IN  n >= MIN_SAMPLES =>
           current_bpm(bpm_state) =
              << "avg_ns", average_duration_ns(SumSeq(middle), Len(middle)) >>


\* C26  current_bpm() is a pure read: called on the BpmCalculator or on a
\* ClockGenerator it changes no calculator state (window, last tick time, tick
\* count, is_playing) and returns the estimate of the window as it is, so
\* consecutive calls return the same value and later Ticks are not affected.
C26_CurrentBpmPureRead ==
    [][(\/ Called("current_bpm")
        \/ Called("ClockGenerator::current_bpm")
        \/ Called("midi::ClockGenerator::current_bpm")) =>
          /\ bpm_state' = bpm_state
          /\ returned' = current_bpm(bpm_state)]_vars


\* C27: a Start that takes the transport from Stopped to Playing leaves the
\* sample window and the last tick timestamp empty, so that the tempo written
\* afterwards is computed from ticks received after that Start only
C27_StartResetsTempo ==
    [][(Handles("Start") /\ transport_state = "Stopped") =>
          /\ transport_state' = "Playing"
          /\ tick_history' = << >>
          /\ last_tick_time' = NoneT]_vars


\* a loop of the internal clock of clock.rs has been spawned
ClockLoops == 1..Len(clock_threads)

\* C28: every loop of the internal clock sleeps (60,000,000 / bpm) / 24
\* microseconds between ticks, in integer division, bpm being the BPM the
\* process was configured with; what the clock sends is Tick and nothing else
C28_ConfiguredInterval ==
    /\ \A i \in ClockLoops :
          clock_threads[i] = (60000000 \div config_bpm) \div 24
    /\ (internal_clock # << >> =>
          \A k \in 1..Len(engine_rx) : engine_rx[k].kind = "Tick")

\* C29: a start() on a clock that already runs spawns no second loop, so a
\* clock source never has more than one tick-producing loop
C29_OneLoopPerSource ==
    /\ Len(clock_threads) <= 1
    /\ Cardinality({ i \in 1..Len(gen_threads) : gen_threads[i] # "done" }) <= 1


\* stop() of the InternalClock of midi/internal_clock.rs has returned and no
\* call has been made since
StopReturned == joining = 0 /\ last_op = "stop"
\* the generator's threads that have not left their loop
LiveThreads == { i \in 1..Len(gen_threads) : gen_threads[i] # "done" }

\* a step that is not the next start() leaves a stopped clock quiet, and a step
\* that applies the Stop finds no thread left
QuietStep ==
    /\ (StopReturned /\ last_op' # "start") =>
          (/\ ~transport'.is_playing
           /\ transport'.tick_count = transport.tick_count
           /\ handled'.Tick = handled.Tick)
    /\ (handled'.Stop # handled.Stop) => (LiveThreads = { })

\* C30: once InternalClock::stop() has returned the shared transport is not
\* playing and no generator thread is left; until the next start() the
\* transport stays stopped, its tick_count does not change and no handler
\* receives a Tick; the Stop is applied only after the tick thread has ended
C30_QuietAfterStop ==
    /\ [](StopReturned => (~transport.is_playing /\ LiveThreads = { }))
    /\ [][QuietStep]_vars

\* stop() has returned after a run in which the thread delivered ticks that
\* the transport counted
C30_Witness ==
    /\ StopReturned
    /\ Len(gen_threads) >= 1
    /\ handled.Tick >= 2
    /\ transport.tick_count >= 2
    /\ handled.Stop >= 1


\* the closed forms of state.rs for the beat and the bar after n ticks
beat_of(n) == ((n \div TICKS_PER_BEAT) % BEATS_PER_BAR) + 1
bar_of(n) == (n \div (TICKS_PER_BEAT * BEATS_PER_BAR)) + 1

\* C31: after any number n of ticks applied while playing, the beat and bar
\* that Transport::tick keeps step by step are ((n / 24) % 4) + 1 and
\* (n / 96) + 1, the values SharedState::tick_update computes from its
\* tick_count: with equal tick counts the two agree
C31_BeatBarClosedForm ==
    /\ transport.beat = beat_of(transport.tick_count)
    /\ transport.bar = bar_of(transport.tick_count)
    /\ tick_count >= 1 =>
          /\ current_beat = beat_of(tick_count)
          /\ current_bar = bar_of(tick_count)
          /\ transport.tick_count = tick_count =>
                (transport.beat = current_beat /\ transport.bar = current_bar)

\* both have counted the same ticks, past the second wrap of the beat
C31_Witness ==
    /\ transport.tick_count = 2 * TICKS_PER_BEAT * BEATS_PER_BAR
    /\ tick_count = transport.tick_count
    /\ transport.bar = 3 /\ transport.beat = 1
    /\ current_bar = 3 /\ current_beat = 1


\* C32: after every handled message the generator's own counter equals
\* SharedState.tick_count: both go up by one on a Tick while Playing, both
\* stay on a Tick while Stopped, both are zeroed by a Stop
C32_CounterLockstep == MUSICAL_TICK_COUNT = tick_count

\* ticks counted in a second play session, after a Stop has reset both
C32_Witness ==
    /\ session >= 2
    /\ transport_state = "Playing"
    /\ tick_count >= 2
    /\ MUSICAL_TICK_COUNT = tick_count


\* C33: while Playing, tick_count is the number of Ticks handled while Playing
\* since the transport last went from Stopped to Playing; while Stopped,
\* tick_count, current_beat and current_bar are 0; whatever the order in which
\* Ticks and TransportCommands were queued
C33_TickCountIsTicksPlayed ==
    /\ transport_state = "Playing" => tick_count = played
    /\ transport_state = "Stopped" =>
          (tick_count = 0 /\ current_beat = 0 /\ current_bar = 0)

\* a second play session has counted its own ticks only, a Tick having been
\* handled while Stopped before
C33_Witness ==
    /\ session >= 2
    /\ transport_state = "Playing"
    /\ played >= 1
    /\ tick_count = played
    /\ idle_left < CmdIdleTicks


\* the port has accepted the Note-On with this id; its Note-Off has been sent
NoteOnSent(id) ==
    \E i \in LogIndex : IsNoteOn(i) /\ port_log[i].msg.id = id /\ port_log[i].ok
NoteOffSent(id) == Delivered(id) # { }

\* C34: as long as the event loop keeps handling Ticks, every Note-On it has
\* sent is eventually followed by the sending of its Note-Off, also when a
\* Stop is handled before the tick the Note-Off is filed under
C34_NoHangingNote ==
    ([]<><<RunTick>>_vars) => (NoteOnSent(1) ~> NoteOffSent(1))


\* C35: when the event loop handles the command a toggle request has queued,
\* the transport changes state, also with several toggles in flight
C35_ToggleFlips ==
    [][(Handles("Start") \/ Handles("Stop")) =>
          transport_state' # transport_state]_vars


\* C36: whenever run_external_clock has returned, by the watchdog or because
\* the receiver thread is gone, the shared transport is not playing
C36_FailStop == ec_pc = "done" => ~transport.is_playing


\* C37: while the transport is playing, every MIDI Clock message the external
\* clock handles adds exactly one to the transport's tick count, whether or
\* not a tempo estimate is returned, which is the tick count that
\* ClockCore::process_message gives for the same message
C37_EveryClockCounts ==
    [][(ECHandles /\ Head(midi_rx) = "Clock" /\ transport.is_playing) =>
          /\ transport'.tick_count = transport.tick_count + 1
          /\ transport'.tick_count =
                clock_core_process_message(transport, bpm_state, "Tick",
                                           ec_now).transport.tick_count]_vars

\* the watchdog acts in this step: the loop ends on timeout
WatchdogTrips == ec_exit # "timeout" /\ ec_exit' = "timeout"

\* the loop stops the transport in this step without having handled a Stop
ForcedStop ==
    /\ transport.is_playing /\ ~transport'.is_playing
    /\ ~(ECHandles /\ Head(midi_rx) = "Stop")

NoFalseTripStep ==
    /\ ECHandles => last_message_time' = ec_now
    /\ (WatchdogTrips \/ ForcedStop) =>
          /\ ec_pc = "check"
          /\ ec_now - last_message_time > INACTIVITY_TIMEOUT
    /\ (ec_pc = "recv" /\ ec_pc' = "check") =>
          ec_now' <= recv_deadline + LoopOverhead
    /\ ec_pc' = "recv" => ec_now' <= recv_deadline' /\ recv_deadline' <= ec_now' + RECV_POLL

\* C38: the external clock stops the transport on its own, or ends its loop on
\* timeout, only at a check that finds more than 5 s since the last message
\* it handled; every message it handles, clock or not, restarts that silence;
\* and the check is reached again no later than one 1 s receive poll after
\* the previous one
C38_NoFalseTrip == [][NoFalseTripStep]_vars

\* more than 5 s after the start the loop is still receiving, kept alive by
\* Note On messages alone: the calculator and the transport never saw a clock
\* message
C38_Witness ==
    /\ ec_pc = "recv"
    /\ ec_exit = "none"
    /\ ec_now > INACTIVITY_TIMEOUT + LoopOverhead * 5
    /\ last_message_time > 0
    /\ ec_now - last_message_time > RECV_POLL
    /\ bpm_state = NewBpmState
    /\ midi_left < MaxMidiMessages
    /\ ~unknown_seen

NonRealtimeMessages == { "NoteOn", "NoteOff", "ControlChange", "ProgramChange" }

\* InternalEngine::send has just been given a message that is not a realtime
\* one
SendsNonRealtime ==
    /\ calls_left' = calls_left - 1
    /\ last_call' \in NonRealtimeMessages
    /\ convert_midi_to_clock_message(last_call') = NoneT

NonRealtimeIgnored ==
    SendsNonRealtime =>
        /\ transport'.tick_count = transport.tick_count
        /\ bpm_state' = bpm_state

\* C39: a Note On, Note Off, Control Change or Program Change passed to
\* InternalEngine::send leaves the transport's tick count and the calculator
\* as they were, as ExternalClock does with a message that
\* convert_midi_to_clock_message maps to None
C39_OnlyClockTicks == [][NonRealtimeIgnored]_vars

=============================================================================
